---- MODULE Spec2Model ----
(***************************************************************************)
(* Model of the cm-tarnation incremental tokenizer: Grammar.match, the     *)
(* Chunk / ChunkBuffer token cache, the Compiler and the Parser driver.    *)
(*                                                                         *)
(* Chunks are objects: they live in `heap` and buffers hold chunk ids, so  *)
(* that two buffers sharing a Chunk (after split / slide / link) see each  *)
(* other's in-place mutations, as in the TypeScript code.                  *)
(***************************************************************************)
EXTENDS Integers, Sequences, FiniteSets, TLC

\* ------------------------------------------------------------------------
\* Bounds of the model
\* ------------------------------------------------------------------------
MaxLen == 3
MaxEdit == 1
MaxParses == 2

\* ------------------------------------------------------------------------
\* Program constants
\* ------------------------------------------------------------------------
MARGIN_BEFORE == 32
MARGIN_AFTER == 128
ERROR_ADVANCE == 2
ERROR_INCOMPLETE == 3

\* `null` for a token id, and for Parser.stoppedAt
NullId == -1
NoStop == -1

\* Node ids of the modelled grammar (first free id is NodeID.SAFE = 4)
ParenNode == 4
BeginNode == 5
EndNode == 6
LeafNode == 7
TeeNode == 8
AnyNode == 9
DefaultNode == 10

\* The alphabet of the modelled documents:
\*   "(" ")"  begin / end of the Paren state
\*   "a" "b"  a run of these is one leaf token
\*   "t"      begin of the Tee state, whose end rule is a rematch rule that
\*            matches wherever the next character is not "("
\*   "r"      matched by a rematch rule of the root frame
Chars == {"(", ")", "a", "t", "r"}

\* The characters of the Leaf rule; "b" only occurs in the documents of the
\* paren grammar (ParenDocs)
LeafChars == {"a", "b"}

RECURSIVE SeqsUpTo(_)
SeqsUpTo(n) ==
  IF n = 0 THEN {<<>>}
  ELSE LET S == SeqsUpTo(n - 1)
       IN S \cup {Append(s, c) : s \in {x \in S : Len(x) = n - 1}, c \in Chars}

Docs == SeqsUpTo(MaxLen)

\* Documents over "(", ")", "a", "b": on these only the rules Paren and Leaf
\* of the grammar ever match
MaxParenLen == 4
ParenChars == {"(", ")", "a", "b"}

RECURSIVE ParenSeqsUpTo(_)
ParenSeqsUpTo(n) ==
  IF n = 0 THEN {<<>>}
  ELSE LET S == ParenSeqsUpTo(n - 1)
       IN S \cup {Append(s, c) : s \in {x \in S : Len(x) = n - 1}, c \in ParenChars}

ParenDocs == ParenSeqsUpTo(MaxParenLen)

\* `const v = ...` followed by code that uses v: the value is computed once
With(v, Op(_)) == Op(v)

Min(a, b) == IF a < b THEN a ELSE b
Max(a, b) == IF a > b THEN a ELSE b
Last(s) == s[Len(s)]
Reverse(s) == [i \in 1..Len(s) |-> s[Len(s) + 1 - i]]

\* ------------------------------------------------------------------------
\* GrammarState: the stack of active frames
\* ------------------------------------------------------------------------
StartState == [stack |-> <<"root">>]

StateClone(st) == [stack |-> [i \in 1..Len(st.stack) |-> st.stack[i]]]

StateEquals(a, b) ==
  /\ Len(a.stack) = Len(b.stack)
  /\ \A i \in 1..Len(a.stack) : a.stack[i] = b.stack[i]

StackTop(st) == st.stack[Len(st.stack)]
StackPush(st, f) == [st EXCEPT !.stack = Append(@, f)]
StackPop(st) == [st EXCEPT !.stack = SubSeq(@, 1, Len(@) - 1)]

\* ------------------------------------------------------------------------
\* Tokens and the outcome of one match
\* ------------------------------------------------------------------------
\* GrammarToken [id, from, to, open?, close?]; <<>> stands for an absent
\* open / close list (the modelled grammar never produces an empty list).
Tok(id, from, to, open, close) ==
  [id |-> id, from |-> from, to |-> to, open |-> open, close |-> close]

\* `rematch` tells that the Matched comes from a rule flagged rematch.
NoMatch ==
  [ok |-> FALSE, state |-> StartState, length |-> 0, tokens |-> <<>>, rematch |-> FALSE]
Match(st, len, toks) ==
  [ok |-> TRUE, state |-> st, length |-> len, tokens |-> toks, rematch |-> FALSE]
Rematch(st, len, toks) ==
  [ok |-> TRUE, state |-> st, length |-> len, tokens |-> toks, rematch |-> TRUE]

CharAt(str, pos) == IF pos >= 0 /\ pos < Len(str) THEN str[pos + 1] ELSE "eof"

RECURSIVE RunLen(_, _)
RunLen(str, pos) == IF CharAt(str, pos) \in LeafChars THEN 1 + RunLen(str, pos + 1) ELSE 0

\* Rule.match for a rule flagged `rematch`: the pattern is tested, but the
\* Matched that is returned holds the empty string at pos.
RematchLength(matchedLength) == 0

\* One rule (or State) of a frame's rule list, tried at str[pos]; `offset`
\* is the absolute document position of pos.
RuleMatch(rule, st, str, pos, offset) ==
  CASE rule = "Paren" ->
         IF CharAt(str, pos) = "("
         THEN Match(StackPush(st, "paren"), 1,
                    <<Tok(BeginNode, offset, offset + 1, <<ParenNode>>, <<>>)>>)
         ELSE NoMatch
    [] rule = "Tee" ->
         IF CharAt(str, pos) = "t"
         THEN Match(StackPush(st, "tee"), 1,
                    <<Tok(NullId, offset, offset + 1, <<TeeNode>>, <<>>)>>)
         ELSE NoMatch
    [] rule = "Leaf" ->
         With(RunLen(str, pos), LAMBDA n :
           IF n > 0
           THEN Match(st, n, <<Tok(LeafNode, offset, offset + n, <<>>, <<>>)>>)
           ELSE NoMatch)
    [] rule = "Rematch" ->
         IF CharAt(str, pos) = "r"
         THEN Rematch(st, RematchLength(1),
                    <<Tok(NullId, offset, offset + RematchLength(1), <<>>, <<>>)>>)
         ELSE NoMatch
    [] rule = "Any" ->
         IF CharAt(str, pos) # "eof"
         THEN Match(st, 1, <<Tok(AnyNode, offset, offset + 1, <<>>, <<>>)>>)
         ELSE NoMatch
    [] OTHER -> NoMatch

\* The end rule of a frame with the frame left on the stack
EndMatchNoPop(frame, st, str, pos, offset) ==
  CASE frame = "paren" ->
         IF CharAt(str, pos) = ")"
         THEN Match(st, 1, <<Tok(EndNode, offset, offset + 1, <<>>, <<ParenNode>>)>>)
         ELSE NoMatch
    [] frame = "tee" ->
         IF CharAt(str, pos) # "("
         THEN Rematch(st, RematchLength(0),
                    <<Tok(NullId, offset, offset + RematchLength(0), <<>>, <<TeeNode>>)>>)
         ELSE NoMatch
    [] OTHER -> NoMatch

\* The end rule of a frame, wrapped as the END fragment of the frame's node;
\* the frame is popped.
EndMatch(frame, st, str, pos, offset) ==
  CASE frame = "paren" ->
         IF CharAt(str, pos) = ")"
         THEN Match(StackPop(st), 1,
                    <<Tok(EndNode, offset, offset + 1, <<>>, <<ParenNode>>)>>)
         ELSE NoMatch
    [] frame = "tee" ->
         IF CharAt(str, pos) # "("
         THEN Rematch(StackPop(st), RematchLength(0),
                    <<Tok(NullId, offset, offset + RematchLength(0), <<>>, <<TeeNode>>)>>)
         ELSE NoMatch
    [] OTHER -> NoMatch

FrameHasEnd(frame) == frame \in {"paren", "tee"}

FrameRules(frame) ==
  CASE frame = "root" -> <<"Paren", "Tee", "Leaf", "Rematch">>
    [] frame = "paren" -> <<"Paren", "Leaf">>
    [] OTHER -> <<"Paren">>

\* The rules of a list tried from its end
RECURSIVE LastRuleMatch(_, _, _, _, _, _)
LastRuleMatch(rules, i, st, str, pos, offset) ==
  IF i > Len(rules) THEN NoMatch
  ELSE With(LastRuleMatch(rules, i + 1, st, str, pos, offset), LAMBDA r :
         IF r.ok THEN r ELSE RuleMatch(rules[i], st, str, pos, offset))

RECURSIVE FirstRuleMatch(_, _, _, _, _, _)
FirstRuleMatch(rules, i, st, str, pos, offset) ==
  IF i > Len(rules) THEN NoMatch
  ELSE With(RuleMatch(rules[i], st, str, pos, offset), LAMBDA r :
         IF r.ok THEN r ELSE FirstRuleMatch(rules, i + 1, st, str, pos, offset))

\* Grammar.match: the end rule of the top frame first, then the frame's
\* rules in order.  The modelled grammar has no global rules and no
\* default node, so the result is null (NoMatch) when nothing matched.
GrammarMatch(st, str, pos, offset) ==
  With(IF FrameHasEnd(StackTop(st))
       THEN EndMatch(StackTop(st), st, str, pos, offset)
       ELSE NoMatch,
       LAMBDA e :
         IF e.ok THEN e
         ELSE FirstRuleMatch(FrameRules(StackTop(st)), 1, st, str, pos, offset))

\* Grammar definitions over the rules above: `rules` gives the rule list of
\* each frame, `global` the fallback rules (an empty list when the
\* definition has none) and `default` the id of the default node (NullId
\* when the definition has none).  The rule "Any" matches any one character,
\* so that more than one rule of a list, a rule and a global rule, or an end
\* rule and a rule can match at the same position.
Grammars ==
  {[rules |-> r, global |-> gl, default |-> d] :
     r \in {[f \in {"root", "paren", "tee"} |-> FrameRules(f)],
            [f \in {"root", "paren", "tee"} |->
               CASE f = "root" -> <<"Leaf", "Any", "Paren">>
                 [] f = "paren" -> <<"Tee", "Any", "Leaf">>
                 [] OTHER -> <<"Paren">>]},
     gl \in {<<>>, <<"Tee", "Any">>, <<"Any", "Tee">>, <<"Rematch">>},
     d \in {NullId, DefaultNode}}

\* Grammar.match of the grammar g: the end rule of the top frame, the
\* frame's rules, the global rules, then the default node on str.slice(pos,
\* pos + 1); null (NoMatch) when nothing matched and there is no default
GrammarMatchIn(g, st, str, pos, offset) ==
  With(IF FrameHasEnd(StackTop(st))
       THEN EndMatch(StackTop(st), st, str, pos, offset)
       ELSE NoMatch,
       LAMBDA e :
         IF e.ok THEN e
         ELSE With(FirstRuleMatch(g.rules[StackTop(st)], 1, st, str, pos, offset), LAMBDA r :
           IF r.ok THEN r
           ELSE With(FirstRuleMatch(g.global, 1, st, str, pos, offset), LAMBDA gl :
             IF gl.ok THEN gl
             ELSE IF g.default # NullId
                  THEN Match(st, Min(1, Max(Len(str) - pos, 0)),
                             <<Tok(g.default, offset,
                                   offset + Min(1, Max(Len(str) - pos, 0)), <<>>, <<>>)>>)
                  ELSE NoMatch)))

\* ------------------------------------------------------------------------
\* Chunk
\* ------------------------------------------------------------------------
\* Chunk.tree: undefined (not computed), null (not convertible) or a tree
TreeUndef == [kind |-> "undef", buf |-> <<>>, length |-> 0]
TreeNull == [kind |-> "null", buf |-> <<>>, length |-> 0]

\* Chunk.tokens is an Int16Array: what it holds after a write of v
Int16 == 32768
Int16Of(v) == ((v + Int16) % (2 * Int16)) - Int16

\* new Chunk(pos, state); open / close = <<>> stand for null
ChunkNew(pos, st) ==
  [from |-> pos, to |-> pos, length |-> 0, tokens |-> <<>>,
   open |-> <<>>, close |-> <<>>, state |-> st, tree |-> TreeUndef]

\* Chunk.offset that forgets the chunk's length
ChunkOffsetNoLength(c, offset) ==
  [c EXCEPT !.from = c.from + offset, !.to = c.from + offset]

ChunkOffset(c, offset) ==
  [c EXCEPT !.from = c.from + offset, !.to = c.from + offset + c.length]

\* Chunk.add that keeps the cached tree
ChunkAddStale(c, id, from, to) ==
  LET c2 == IF to > c.to THEN [c EXCEPT !.to = to, !.length = to - c.from] ELSE c
  IN IF id # NullId
     THEN [c2 EXCEPT !.tokens = Append(@, <<Int16Of(id), Int16Of(from - c.from),
                                            Int16Of(to - c.from)>>)]
     ELSE c2

\* Chunk.add: tokens are stored relative to the chunk's from
ChunkAdd(c, id, from, to) ==
  LET c1 == [c EXCEPT !.tree = TreeUndef]
      c2 == IF to > c1.to THEN [c1 EXCEPT !.to = to, !.length = to - c1.from] ELSE c1
  IN IF id # NullId
     THEN [c2 EXCEPT !.tokens = Append(@, <<Int16Of(id), Int16Of(from - c.from),
                                            Int16Of(to - c.from)>>)]
     ELSE c2

ChunkPushOpen(c, ids) == [c EXCEPT !.tree = TreeUndef, !.open = @ \o ids]
ChunkPushClose(c, ids) == [c EXCEPT !.tree = TreeUndef, !.close = @ \o ids]

\* Chunk.canConvertToTree without the comparison of close with the reversed
\* open list
ChunkCanConvertAnyOrder(c) ==
  /\ c.tree.kind # "null"
  /\ Len(c.tokens) > 1
  /\ (c.open # <<>> \/ c.close # <<>>) =>
        /\ c.open # <<>> /\ c.close # <<>>
        /\ Len(c.open) = Len(c.close)

ChunkCanConvertToTree(c) ==
  /\ c.tree.kind # "null"
  /\ Len(c.tokens) > 1
  /\ (c.open # <<>> \/ c.close # <<>>) =>
        /\ c.open # <<>> /\ c.close # <<>>
        /\ Len(c.open) = Len(c.close)
        /\ Reverse(c.open) = c.close

\* The TreeBuffer content built by Chunk.tryForTree
ChunkTreeBuffer(c) ==
  LET total == Len(c.tokens) * 4 + Len(c.open) * 4
      opens == [i \in 1..Len(c.open) |-> <<c.open[Len(c.open) + 1 - i], 0, c.length, total>>]
      leaves == [i \in 1..Len(c.tokens) |->
                   <<c.tokens[i][1], c.tokens[i][2], c.tokens[i][3],
                     (Len(c.open) + i - 1) * 4 + 4>>]
  IN opens \o leaves

\* Chunk.tryForTree: the chunk after the call (its tree field is the result)
ChunkTryForTree(c) ==
  IF c.tree.kind = "null" \/ c.tree.kind = "tree" THEN c
  ELSE IF ~ChunkCanConvertToTree(c) THEN [c EXCEPT !.tree = TreeNull]
  ELSE [c EXCEPT !.tree = [kind |-> "tree", buf |-> ChunkTreeBuffer(c), length |-> c.length]]

\* Chunk.isReusable without the comparison of the states
ChunkFitsPosition(c, st, pos, offset) == c.from + offset = pos

ChunkIsReusable(c, st, pos, offset) ==
  /\ c.from + offset = pos
  /\ StateEquals(st, c.state)

\* ------------------------------------------------------------------------
\* ChunkBuffer: h is the heap of chunks, cs the buffer's array of chunk ids.
\* Indexes are 0-based as in the code.
\* ------------------------------------------------------------------------
Alloc(h, c) == Append(h, c)
NewId(h) == Len(h) + 1

\* ChunkBuffer.add that starts the chunk after a closed chunk at the closed
\* chunk's from
BufferAddChunkAtFrom(h, cs, st, t) ==
  With(IF cs = <<>>
       THEN [h |-> Alloc(h, ChunkNew(t.from, st)), cs |-> <<NewId(h)>>, pushed |-> TRUE]
       ELSE [h |-> h, cs |-> cs, pushed |-> FALSE],
  LAMBDA s1 :
  With(IF t.open # <<>> /\ s1.h[Last(s1.cs)].length # 0
       THEN [h |-> Alloc(s1.h, ChunkNew(s1.h[Last(s1.cs)].to, st)),
             cs |-> Append(s1.cs, NewId(s1.h)), pushed |-> TRUE]
       ELSE s1,
  LAMBDA a :
  With(IF t.open # <<>>
       THEN [a EXCEPT !.h[Last(a.cs)] = ChunkPushOpen(@, t.open)]
       ELSE a,
  LAMBDA s2 :
  With([s2 EXCEPT !.h[Last(s2.cs)] = ChunkAdd(@, t.id, t.from, t.to)],
  LAMBDA s3 :
  With(IF t.close # <<>>
       THEN [s3.h EXCEPT ![Last(s3.cs)] = ChunkPushClose(@, t.close)]
       ELSE s3.h,
  LAMBDA h4 :
    IF t.close # <<>>
    THEN [h |-> Alloc(h4, ChunkNew(h4[Last(s3.cs)].from, st)),
          cs |-> Append(s3.cs, NewId(h4)), pushed |-> TRUE]
    ELSE s3)))))

\* ChunkBuffer.add
BufferAdd(h, cs, st, t) ==
  With(IF cs = <<>>
       THEN [h |-> Alloc(h, ChunkNew(t.from, st)), cs |-> <<NewId(h)>>, pushed |-> TRUE]
       ELSE [h |-> h, cs |-> cs, pushed |-> FALSE],
  LAMBDA s1 :
  With(IF t.open # <<>> /\ s1.h[Last(s1.cs)].length # 0
       THEN [h |-> Alloc(s1.h, ChunkNew(s1.h[Last(s1.cs)].to, st)),
             cs |-> Append(s1.cs, NewId(s1.h)), pushed |-> TRUE]
       ELSE s1,
  LAMBDA a :
  With(IF t.open # <<>>
       THEN [a EXCEPT !.h[Last(a.cs)] = ChunkPushOpen(@, t.open)]
       ELSE a,
  LAMBDA s2 :
  With([s2 EXCEPT !.h[Last(s2.cs)] = ChunkAdd(@, t.id, t.from, t.to)],
  LAMBDA s3 :
  With(IF t.close # <<>>
       THEN [s3.h EXCEPT ![Last(s3.cs)] = ChunkPushClose(@, t.close)]
       ELSE s3.h,
  LAMBDA h4 :
    IF t.close # <<>>
    THEN [h |-> Alloc(h4, ChunkNew(h4[Last(s3.cs)].to, st)),
          cs |-> Append(s3.cs, NewId(h4)), pushed |-> TRUE]
    ELSE s3)))))

\* ChunkBuffer.split that clears the indexed chunk itself instead of putting
\* a new chunk in its place
BufferSplitInPlace(h, cs, index) ==
  LET l0 == IF Len(cs) <= 1 THEN cs ELSE SubSeq(cs, 1, index + 1)
      r0 == IF Len(cs) <= 1 THEN <<>> ELSE SubSeq(cs, index + 2, Len(cs))
      old == h[Last(l0)]
  IN [h |-> [h EXCEPT ![Last(l0)] = ChunkNew(old.from, StateClone(old.state))],
      left |-> l0,
      right |-> r0]

\* ChunkBuffer.split that leaves the last chunk of the left half as it is
BufferSplitKeep(h, cs, index) ==
  [h |-> h,
   left |-> IF Len(cs) <= 1 THEN cs ELSE SubSeq(cs, 1, index + 1),
   right |-> IF Len(cs) <= 1 THEN <<>> ELSE SubSeq(cs, index + 2, Len(cs))]

\* ChunkBuffer.split (index valid)
BufferSplit(h, cs, index) ==
  LET l0 == IF Len(cs) <= 1 THEN cs ELSE SubSeq(cs, 1, index + 1)
      r0 == IF Len(cs) <= 1 THEN <<>> ELSE SubSeq(cs, index + 2, Len(cs))
      old == h[Last(l0)]
  IN [h |-> Alloc(h, ChunkNew(old.from, StateClone(old.state))),
      left |-> [l0 EXCEPT ![Len(l0)] = NewId(h)],
      right |-> r0]

\* ChunkBuffer.slide that offsets every chunk it keeps, whatever the index
BufferSlideAll(h, cs, index, offset, cutLeft) ==
  LET cs1 == IF cutLeft /\ Len(cs) # 1 THEN SubSeq(cs, index + 1, Len(cs)) ELSE cs
      moved == {cs1[i] : i \in 1..Len(cs1)}
  IN [h |-> [id \in DOMAIN h |-> IF id \in moved THEN ChunkOffset(h[id], offset) ELSE h[id]],
      cs |-> cs1]

\* ChunkBuffer.slide (index valid)
BufferSlide(h, cs, index, offset, cutLeft) ==
  IF Len(cs) = 1
  THEN [h |-> [h EXCEPT ![Last(cs)] = ChunkOffset(@, offset)], cs |-> cs]
  ELSE LET cs1 == IF cutLeft THEN SubSeq(cs, index + 1, Len(cs)) ELSE cs
           first == IF cutLeft THEN 0 ELSE index
           moved == {cs1[i] : i \in (first + 1)..Len(cs1)}
       IN [h |-> [id \in DOMAIN h |-> IF id \in moved THEN ChunkOffset(h[id], offset) ELSE h[id]],
           cs |-> cs1]

RECURSIVE FirstPast(_, _, _, _)
FirstPast(h, cs, max, i) ==
  IF i > Len(cs) THEN 0
  ELSE IF h[cs[i]].to > max THEN i
  ELSE FirstPast(h, cs, max, i + 1)

\* ChunkBuffer.link that appends nothing
BufferLinkNone(h, cs, right, max) == cs

\* ChunkBuffer.link: `if (max)` does not clamp for max = 0
BufferLink(h, cs, right, max) ==
  LET all == cs \o right
      cut == IF max # 0 THEN FirstPast(h, all, max, 1) ELSE 0
  IN IF cut # 0 THEN SubSeq(all, 1, cut - 1) ELSE all

\* ChunkBuffer.ensureLast
BufferEnsureLast(h, cs, pos, st) ==
  IF cs = <<>>
  THEN [h |-> Alloc(h, ChunkNew(pos, st)), cs |-> <<NewId(h)>>]
  ELSE [h |-> h, cs |-> cs]

\* util.search with the comparator of ChunkBuffer.searchCmp and
\* precise = false: <<"hit" | "miss" | "null", index>>
RECURSIVE BinarySearch(_, _, _, _, _, _)
BinarySearch(h, cs, target, min, max, index) ==
  IF min <= max
  THEN LET i == min + ((max - min) \div 2)
           from == h[cs[i + 1]].from
       IN IF from = target THEN <<"hit", i>>
          ELSE IF from - target < 0 THEN BinarySearch(h, cs, target, i + 1, max, i)
          ELSE BinarySearch(h, cs, target, min, i - 1, i)
  ELSE IF index = -1 THEN <<"null", -1>> ELSE <<"miss", index>>

\* The sidedness loop of ChunkBuffer.search left out
SideCorrectNone(h, cs, pos, side, index) == index

RECURSIVE SideCorrect(_, _, _, _, _)
SideCorrect(h, cs, pos, side, index) ==
  IF index < 0 \/ index >= Len(cs) THEN -1
  ELSE IF (IF side = 1 THEN h[cs[index + 1]].from < pos ELSE h[cs[index + 1]].from > pos)
  THEN SideCorrect(h, cs, pos, side, IF side = 1 THEN index + 1 ELSE index - 1)
  ELSE index

\* ChunkBuffer.search(pos, side) with precise = false: the index found, or
\* -1 for { chunk: null, index: null }
BufferSearch(h, cs, pos, side) ==
  IF cs = <<>> THEN -1
  ELSE With(BinarySearch(h, cs, pos, 0, Len(cs) - 1, -1), LAMBDA r :
         IF r[1] = "null" THEN -1
         ELSE IF h[cs[r[2] + 1]].from = pos \/ side = 0 THEN r[2]
         ELSE SideCorrect(h, cs, pos, side, r[2]))

\* ChunkBuffer.search(pos, side, true): util.search returns null on a miss
BufferSearchPrecise(h, cs, pos, side) ==
  IF cs = <<>> THEN -1
  ELSE With(BinarySearch(h, cs, pos, 0, Len(cs) - 1, -1), LAMBDA r :
         IF r[1] = "hit" THEN r[2] ELSE -1)

\* ------------------------------------------------------------------------
\* CompileStack and Compiler.  A compiler is
\*   [index, stack (of <<id, start, children>>), compiled (of <<type, from,
\*    to, size>>), size (number of records emitted), reused (of trees)]
\* The stack is the first `length` elements of the typed arrays ids,
\* positions and children, which hold COMPILER_STACK_SIZE elements each: a
\* write past their end is dropped and a read past their end is undefined.
\* ------------------------------------------------------------------------
COMPILER_STACK_SIZE == 64
Uint16 == 65536
Undefined == -2

\* The frame read at an index past the end of the typed arrays
LostFrame == <<Undefined, Undefined, Undefined>>

\* What an Int32Array holds after a write of v (undefined and NaN give 0)
Int32Of(v) == IF v = Undefined THEN 0 ELSE v

\* children * 4 + 4 for the children read from a frame (NaN for undefined)
FrameSize(frame) == IF frame[3] = Undefined THEN Undefined ELSE frame[3] * 4 + 4

CompilerNew ==
  [index |-> 0, stack |-> <<>>, compiled |-> <<>>, size |-> 0, reused |-> <<>>]

\* k calls of CompileStack.increment: children is a Uint16Array
StackIncrementBy(stack, k) ==
  [i \in 1..Len(stack) |->
     IF i > COMPILER_STACK_SIZE THEN stack[i]
     ELSE <<stack[i][1], stack[i][2], (stack[i][3] + k) % Uint16>>]

\* CompileStack.increment
StackIncrement(stack) == StackIncrementBy(stack, 1)

\* The index of the top frame when no frame has the id
StackLastOrTop(stack, id) ==
  LET hits == {i \in 1..Len(stack) : stack[i][1] = id}
  IN IF hits = {} THEN Len(stack) - 1 ELSE (CHOOSE i \in hits : \A j \in hits : j <= i) - 1

\* CompileStack.last: 0-based index of the last frame with the id, or -1
StackLast(stack, id) ==
  LET hits == {i \in 1..Len(stack) : stack[i][1] = id}
  IN IF hits = {} THEN -1 ELSE (CHOOSE i \in hits : \A j \in hits : j <= i) - 1

\* Compiler.emit
Emit(comp, type, from, to, children) ==
  [comp EXCEPT !.compiled = Append(@, <<Int32Of(type), Int32Of(from), to, Int32Of(children)>>),
               !.size = @ + 1,
               !.stack = StackIncrement(@)]

\* k calls of Compiler.emit for the tokens of a chunk, whose records are
\* counted in size but not kept in compiled
EmitRun(comp, k) ==
  [comp EXCEPT !.size = @ + k, !.stack = StackIncrementBy(@, k)]

RECURSIVE EmitTokens(_, _, _, _)
EmitTokens(comp, from, tokens, i) ==
  IF i > Len(tokens) THEN comp
  ELSE EmitTokens(Emit(comp, tokens[i][1], from + tokens[i][2], from + tokens[i][3], 4),
                  from, tokens, i + 1)

RECURSIVE PushOpens(_, _, _, _)
PushOpens(stack, open, from, i) ==
  IF i > Len(open) THEN stack
  ELSE PushOpens(Append(stack, IF Len(stack) < COMPILER_STACK_SIZE
                               THEN <<open[i], from, 0>> ELSE LostFrame),
                 open, from, i + 1)

RECURSIVE CloseNodes(_, _, _, _)
CloseNodes(comp, close, to, i) ==
  IF i > Len(close) THEN comp
  ELSE With(StackLast(comp.stack, close[i]), LAMBDA idx :
         CloseNodes(IF idx # -1
                    THEN Emit([comp EXCEPT !.stack = SubSeq(@, 1, idx)],
                              comp.stack[idx + 1][1], comp.stack[idx + 1][2], to,
                              FrameSize(comp.stack[idx + 1]))
                    ELSE comp,
                    close, to, i + 1))

\* Compiler.parse of the chunk with the given id: [comp, h]
CompilerParse(comp, h, id) ==
  With(ChunkTryForTree(h[id]), LAMBDA c :
    [comp |-> IF c.tree.kind = "tree"
              THEN [Emit(comp, Len(comp.reused), c.from, c.to, -1)
                      EXCEPT !.reused = Append(@, c.tree)]
              ELSE CloseNodes(
                     EmitTokens([comp EXCEPT !.stack = PushOpens(@, c.open, c.from, 1)],
                                c.from, c.tokens, 1),
                     c.close, c.to, 1),
     h |-> [h EXCEPT ![id] = c]])

\* Compiler.step(force = false): [comp, h]
CompilerStep(comp, h, cs) ==
  IF comp.index < Len(cs)
  THEN With(CompilerParse(comp, h, cs[comp.index + 1]), LAMBDA r :
         [comp |-> [r.comp EXCEPT !.index = @ + 1], h |-> r.h])
  ELSE [comp |-> comp, h |-> h]

\* Compiler.advanceFully(force = false)
RECURSIVE CompilerAdvanceFully(_, _, _)
CompilerAdvanceFully(comp, h, cs) ==
  IF comp.index < Len(cs)
  THEN With(CompilerStep(comp, h, cs), LAMBDA r :
         CompilerAdvanceFully(r.comp, r.h, cs))
  ELSE [comp |-> comp, h |-> h]

\* The loop of Compiler.compile without the emit of the error token
RECURSIVE FinishUnmarked(_, _)
FinishUnmarked(comp, length) ==
  IF Len(comp.stack) = 0 THEN comp
  ELSE FinishUnmarked(
         Emit([comp EXCEPT !.stack = SubSeq(@, 1, Len(@) - 1)],
              Last(comp.stack)[1], Last(comp.stack)[2], length, FrameSize(Last(comp.stack))),
         length)

\* The loop of Compiler.compile that closes the frames left open
RECURSIVE FinishIncomplete(_, _)
FinishIncomplete(comp, length) ==
  IF Len(comp.stack) = 0 THEN comp
  ELSE With(Emit(comp, ERROR_INCOMPLETE, length, length, 4), LAMBDA e :
         FinishIncomplete(
           Emit([e EXCEPT !.stack = SubSeq(@, 1, Len(@) - 1)],
                Last(e.stack)[1], Last(e.stack)[2], length, FrameSize(Last(e.stack))),
           length))

\* Compiler.compile: [comp, h, open]; the tree is comp.compiled with
\* comp.reused, and open is the stack as it was when every chunk had been
\* compiled, before the frames left open were closed
CompilerCompile(comp, h, cs, length) ==
  IF cs = <<>> THEN [comp |-> comp, h |-> h, open |-> <<>>]
  ELSE With(CompilerAdvanceFully(comp, h, cs), LAMBDA r :
         [comp |-> FinishIncomplete(r.comp, length), h |-> r.h, open |-> r.comp.stack])

\* ------------------------------------------------------------------------
\* ParseRegion (single contiguous range)
\* ------------------------------------------------------------------------
NoEdit == [some |-> FALSE, from |-> 0, to |-> 0, offset |-> 0]

\* region of a parse of `d`: from / to, original.length and the edit
RegionNew(d, edit) == [from |-> 0, to |-> Len(d), length |-> Len(d), edit |-> edit]

RegionCompensate(pos, addition) == pos + addition

\* region.read(start, MARGIN_AFTER, region.to): the text from start up to
\* MARGIN_AFTER characters past the requested end
RegionRead(d, start, to) == SubSeq(d, start + 1, Min(Len(d), to + MARGIN_AFTER))

\* The document after replacing [a, b) by ins, and the edit descriptor of
\* that change: from / to delimit the changed text in the new document and
\* offset is the net length delta.
ApplyEdit(d, a, b, ins) == SubSeq(d, 1, a) \o ins \o SubSeq(d, b + 1, Len(d))
EditOf(a, b, ins) ==
  [some |-> TRUE, from |-> a, to |-> a + Len(ins), offset |-> Len(ins) - (b - a)]

\* ------------------------------------------------------------------------
\* Parser
\* ------------------------------------------------------------------------
VARIABLES
  doc,            \* the input document
  heap,           \* every Chunk object created so far, by id
  buffer,         \* Parser.buffer.chunks (chunk ids); shared with the Compiler
  previousRight,  \* Parser.previousRight: [some, chunks]
  state,          \* Parser.state
  parsedPos,      \* Parser.parsedPos
  stoppedAt,      \* Parser.stoppedAt (NoStop for null)
  region,         \* Parser.region
  compiler,       \* Parser.compiler
  pc,             \* "ready": between advance() calls, "nextChunk": inside
                  \* the loop of nextChunk, "done": advance() returned a Tree;
                  \* then "split", "linked", "slid", "restored": the
                  \* ChunkBuffer operation applied to the finished buffer
  tree,           \* the Tree returned by finish(): [some, buffer, compiled, reused]
                  \* and `open`, the compile stack finish() had to close
  parseNo,        \* number of parsers constructed so far
  ev,             \* what the last iteration of the match loop did
  born,           \* per chunk id: the parser state right before the match
                  \* that produced the chunk's first token
  prev,           \* the previous parse as it was when the running parser
                  \* was constructed: [doc, ids, chunks, compiled, reused]
  bufOp           \* the ChunkBuffer operation applied to the finished buffer:
                  \* [name, index, offset, before, right], and the side and
                  \* precise arguments of a search

vars == <<doc, heap, buffer, previousRight, state, parsedPos, stoppedAt, region,
          compiler, pc, tree, parseNo, ev, born, prev, bufOp>>

NoBuffer == [some |-> FALSE, chunks |-> <<>>]
NoTree == [some |-> FALSE, buffer |-> <<>>, compiled |-> <<>>, reused |-> <<>>, open |-> <<>>]
NoState == [stack |-> <<>>]
NoPrev == [doc |-> <<>>, ids |-> <<>>, chunks |-> <<>>, compiled |-> <<>>, reused |-> <<>>]
\* n: parity of the number of iterations; before: parsedPos when the
\* iteration began; reused / idx / spliceTo: tryToReuse succeeded, the index
\* in previousRight of the chunk it found, and the `to` of the last chunk
\* after the splice; pos: the position matched at; ok, rematch, len: the
\* outcome of Grammar.match and the length advanced by
NoEvent ==
  [n |-> 0, before |-> 0, reused |-> FALSE, idx |-> -1, spliceTo |-> 0, pos |-> 0,
   ok |-> FALSE, rematch |-> FALSE, len |-> 0]

\* before: the chunks of the buffer as they were before the operation;
\* right: the right half returned by split
NoOp == [name |-> "none", index |-> 0, offset |-> 0, before |-> <<>>, right |-> <<>>]

\* Parser.done
Done(pos, reg) == pos >= reg.to

\* new Parser(language, input, [], ranges): no fragments
InitOn(D) ==
  /\ doc \in D
  /\ heap = <<>>
  /\ buffer = <<>>
  /\ previousRight = NoBuffer
  /\ state = StartState
  /\ parsedPos = 0
  /\ stoppedAt = NoStop
  /\ region = RegionNew(doc, NoEdit)
  /\ compiler = CompilerNew
  /\ pc = "ready"
  /\ tree = NoTree
  /\ parseNo = 1
  /\ ev = NoEvent
  /\ born = <<>>
  /\ prev = NoPrev
  /\ bufOp = NoOp

Init == InitOn(Docs)

\* Parser.stopAt(pos)
StopAt(pos) ==
  /\ pc = "ready"
  /\ region' = [region EXCEPT !.to = pos]
  /\ stoppedAt' = pos
  /\ UNCHANGED <<doc, heap, buffer, previousRight, state, parsedPos, compiler, pc,
                 tree, parseNo, ev, born, prev, bufOp>>

\* Parser.finish: [comp, h, tree]
Finish(comp, h, cs, reg) ==
  With(CompilerCompile(comp, h, cs, reg.length), LAMBDA r :
    [comp |-> r.comp, h |-> r.h,
     tree |-> [some |-> TRUE, buffer |-> cs,
               compiled |-> IF cs = <<>> THEN <<>> ELSE r.comp.compiled,
               reused |-> IF cs = <<>> THEN <<>> ELSE r.comp.reused,
               open |-> r.open]])

\* Index of the first chunk of `right` that can be reused, or -1
RECURSIVE FirstReusable(_, _, _, _, _, _)
FirstReusable(h, right, st, pos, offset, idx) ==
  IF idx >= Len(right) THEN -1
  ELSE IF ChunkIsReusable(h[right[idx + 1]], st, pos, offset) THEN idx
  ELSE FirstReusable(h, right, st, pos, offset, idx + 1)

\* The position the parser takes after a splice
ReusePosition(last) == last.from

\* Parser.tryToReuse: [reused, idx, h, cs, state, pos, spliceTo]
TryToReuse(h, cs, right, st, pos, reg) ==
  With(IF reg.edit.some /\ pos > reg.edit.to
       THEN FirstReusable(h, right, st, pos, reg.edit.offset, 0)
       ELSE -1,
  LAMBDA idx :
    IF idx = -1
    THEN [reused |-> FALSE, idx |-> -1, h |-> h, cs |-> cs, state |-> st, pos |-> pos,
          spliceTo |-> 0]
    ELSE With(BufferSlide(h, right, idx, reg.edit.offset, TRUE), LAMBDA slid :
         With(BufferEnsureLast(slid.h, BufferLink(slid.h, cs, slid.cs, reg.length), pos, st),
         LAMBDA ens :
           [reused |-> TRUE, idx |-> idx, h |-> ens.h, cs |-> ens.cs,
            state |-> StateClone(ens.h[Last(ens.cs)].state),
            pos |-> ReusePosition(ens.h[Last(ens.cs)]),
            spliceTo |-> ens.h[Last(ens.cs)].to])))

\* The length Parser.nextChunk advances by: the length of the match, or one
\* character for the error token when nothing matched
AdvanceLengthUnforced(match) == IF match.ok THEN match.length ELSE 0
AdvanceLength(match) == IF match.ok THEN match.length ELSE 1

\* previousRight after the reuse attempt of an iteration: a buffer that was
\* spliced is not kept
PreviousRightKept(reused, right) == right
PreviousRightAfter(reused, right) == IF reused THEN NoBuffer ELSE right

\* matchTokens when nothing matched at pos
ErrorTokensNone(pos) == <<>>
ErrorTokens(pos) == <<Tok(ERROR_ADVANCE, pos, pos + 1, <<>>, <<>>)>>

\* The loop over matchTokens of Parser.nextChunk: [h, cs, pushed, born]
RECURSIVE AddTokens(_, _, _, _, _, _, _)
AddTokens(h, cs, b, startState, tokens, i, pushed) ==
  IF i > Len(tokens) THEN [h |-> h, cs |-> cs, pushed |-> pushed, born |-> b]
  ELSE With(BufferAdd(h, cs, startState, tokens[i]), LAMBDA r :
         LET \* the chunk that received the token
             target == IF tokens[i].close # <<>> THEN r.cs[Len(r.cs) - 1] ELSE r.cs[Len(r.cs)]
             b1 == [id \in 1..Len(r.h) |-> IF id \in DOMAIN b THEN b[id] ELSE NoState]
             b2 == IF b1[target] = NoState THEN [b1 EXCEPT ![target] = startState] ELSE b1
         IN AddTokens(r.h, r.cs, b2, startState, tokens, i + 1, pushed \/ r.pushed))

\* The statements of Parser.advance after nextChunk():
\* compiler.step(), then finish() when done
AfterNextChunk(h, cs, pos) ==
  \E stepped \in {CompilerStep(compiler, h, cs)} :
    IF Done(pos, region)
    THEN \E fin \in {Finish(stepped.comp, stepped.h, cs, region)} :
           /\ compiler' = fin.comp
           /\ heap' = fin.h
           /\ tree' = fin.tree
           /\ pc' = "done"
    ELSE /\ compiler' = stepped.comp
         /\ heap' = stepped.h
         /\ tree' = tree
         /\ pc' = "ready"

\* Parser.advance, up to the call of nextChunk
Advance ==
  /\ pc = "ready"
  /\ IF stoppedAt # NoStop /\ stoppedAt # 0 /\ parsedPos >= stoppedAt
     THEN \E fin \in {Finish(compiler, heap, buffer, region)} :
            /\ compiler' = fin.comp
            /\ heap' = fin.h
            /\ tree' = fin.tree
            /\ pc' = "done"
     ELSE /\ pc' = "nextChunk"
          /\ UNCHANGED <<compiler, heap, tree>>
  /\ UNCHANGED <<doc, buffer, previousRight, state, parsedPos, stoppedAt, region,
                 parseNo, ev, born, prev, bufOp>>

\* One iteration of the while loop of Parser.nextChunk; when the iteration
\* added a chunk, nextChunk returns and advance() runs to its end.
NextChunkIter ==
  /\ pc = "nextChunk"
  /\ parsedPos < region.to
  /\ \E ru \in {IF previousRight.some
                 THEN TryToReuse(heap, buffer, previousRight.chunks, state, parsedPos, region)
                 ELSE [reused |-> FALSE, idx |-> -1, h |-> heap, cs |-> buffer,
                       state |-> state, pos |-> parsedPos, spliceTo |-> 0]} :
     \E pos \in {ru.pos} :
     \E start \in {Max(pos - MARGIN_BEFORE, region.from)} :
     \E match \in {GrammarMatch(ru.state,
                                RegionRead(doc, RegionCompensate(pos, start - pos), region.to),
                                pos - start, pos)} :
     \E length \in {AdvanceLength(match)} :
     \E newPos \in {RegionCompensate(pos, length)} :
     \E ad \in {AddTokens(ru.h, ru.cs, born, StateClone(ru.state),
                          IF match.ok THEN match.tokens
                          ELSE ErrorTokens(pos),
                          1, FALSE)} :
        /\ previousRight' = PreviousRightAfter(ru.reused, previousRight)
        /\ state' = IF match.ok THEN match.state ELSE ru.state
        /\ parsedPos' = newPos
        /\ buffer' = ad.cs
        /\ born' = ad.born
        /\ ev' = [n |-> 1 - ev.n, before |-> parsedPos, reused |-> ru.reused,
                  idx |-> ru.idx, spliceTo |-> ru.spliceTo, pos |-> pos, ok |-> match.ok,
                  rematch |-> match.rematch, len |-> length]
        /\ IF ad.pushed
           THEN AfterNextChunk(ad.h, ad.cs, newPos)
           ELSE /\ heap' = ad.h
                /\ pc' = "nextChunk"
                /\ UNCHANGED <<compiler, tree>>
  /\ UNCHANGED <<doc, stoppedAt, region, parseNo, prev, bufOp>>

\* The while condition of nextChunk fails: nextChunk returns false and
\* advance() runs to its end.
NextChunkExit ==
  /\ pc = "nextChunk"
  /\ ~(parsedPos < region.to)
  /\ AfterNextChunk(heap, buffer, parsedPos)
  /\ UNCHANGED <<doc, buffer, previousRight, state, parsedPos, stoppedAt, region,
                 parseNo, ev, born, prev, bufOp>>

\* new Parser(language, input, fragments, ranges) for the document obtained
\* by replacing [a, b) of the parsed document by ins; the fragments carry the
\* previous tree, whose ChunkBuffer (when it has one) is found by find().
Reparse(a, b, ins) ==
  /\ pc = "done"
  /\ parseNo < MaxParses
  /\ \E d \in {ApplyEdit(doc, a, b, ins)} :
     \E old \in {tree.buffer} :
     \E index \in {IF old # <<>> THEN BufferSearch(heap, old, a, -1) ELSE -1} :
     \E found \in {index # -1} :
     \E sp \in {IF found THEN BufferSplit(heap, old, index)
                 ELSE [h |-> heap, left |-> <<>>, right |-> <<>>]} :
     \E from \in {IF found THEN heap[old[index + 1]].from ELSE 0} :
     \E caught \in {CompilerAdvanceFully(CompilerNew, sp.h, sp.left)} :
        /\ Len(d) <= MaxLen
        /\ doc' = d
        /\ region' = [RegionNew(d, EditOf(a, b, ins)) EXCEPT !.from = from]
        /\ stoppedAt' = NoStop
        /\ previousRight' = IF found THEN [some |-> TRUE, chunks |-> sp.right] ELSE NoBuffer
        /\ buffer' = sp.left
        /\ state' = IF found THEN StateClone(heap[old[index + 1]].state) ELSE StartState
        /\ parsedPos' = from
        /\ compiler' = caught.comp
        /\ heap' = caught.h
        /\ prev' = [doc |-> doc, ids |-> old, chunks |-> [i \in 1..Len(old) |-> heap[old[i]]],
                    compiled |-> tree.compiled, reused |-> tree.reused]
  /\ pc' = "ready"
  /\ parseNo' = parseNo + 1
  /\ ev' = NoEvent
  /\ born' = <<>>
  /\ UNCHANGED <<tree, bufOp>>

Step == Advance \/ NextChunkIter \/ NextChunkExit

Stop == \E pos \in 0..Len(doc) : StopAt(pos)

Edit ==
  \E a \in 0..Len(doc) : \E b \in a..Min(Len(doc), a + MaxEdit) :
    \E ins \in SeqsUpTo(MaxEdit) : Reparse(a, b, ins)

Next == Step \/ Stop \/ Edit

Spec == Init /\ [][Next]_vars

\* A single parse from scratch, with stopAt calls between the steps
SpecStop == Init /\ [][Step \/ Stop]_vars

\* A parse from scratch followed by an incremental parse of an edited document
SpecEdit == Init /\ [][Step \/ Edit]_vars

\* The caller keeps calling advance(), and a running advance() keeps running
FairStop == SpecStop /\ WF_vars(Step)

\* A single parse from scratch of a document of the paren grammar
SpecParen == InitOn(ParenDocs) /\ [][Step]_vars

\* ------------------------------------------------------------------------
\* ChunkBuffer operations applied to the buffer of a finished parse
\* ------------------------------------------------------------------------
MaxOffset == 2
Offsets == (0 - MaxOffset)..MaxOffset

\* The chunks of the buffer, by value
Snapshot(h, cs) == [i \in 1..Len(cs) |-> h[cs[i]]]

\* const { left, right } = buffer.split(index)
Split(index) ==
  /\ pc = "done"
  /\ index < Len(buffer)
  /\ \E sp \in {BufferSplit(heap, buffer, index)} :
       /\ heap' = sp.h
       /\ buffer' = sp.left
       /\ bufOp' = [name |-> "split", index |-> index, offset |-> 0,
                    before |-> Snapshot(heap, buffer), right |-> sp.right]
  /\ pc' = "split"
  /\ UNCHANGED <<doc, previousRight, state, parsedPos, stoppedAt, region, compiler,
                 tree, parseNo, ev, born, prev>>

\* left.link(right), with no max
Link ==
  /\ pc = "split"
  /\ buffer' = BufferLink(heap, buffer, bufOp.right, 0)
  /\ bufOp' = [bufOp EXCEPT !.name = "link"]
  /\ pc' = "linked"
  /\ UNCHANGED <<doc, heap, previousRight, state, parsedPos, stoppedAt, region,
                 compiler, tree, parseNo, ev, born, prev>>

\* buffer.slide(index, offset)
Slide(index, offset) ==
  /\ pc = "done"
  /\ index < Len(buffer)
  /\ \E sl \in {BufferSlide(heap, buffer, index, offset, FALSE)} :
       /\ heap' = sl.h
       /\ buffer' = sl.cs
  /\ bufOp' = [name |-> "slide", index |-> index, offset |-> offset,
               before |-> Snapshot(heap, buffer), right |-> <<>>]
  /\ pc' = "slid"
  /\ UNCHANGED <<doc, previousRight, state, parsedPos, stoppedAt, region, compiler,
                 tree, parseNo, ev, born, prev>>

\* buffer.slide(index, -offset) after buffer.slide(index, offset)
SlideBack ==
  /\ pc = "slid"
  /\ \E sl \in {BufferSlide(heap, buffer, bufOp.index, 0 - bufOp.offset, FALSE)} :
       /\ heap' = sl.h
       /\ buffer' = sl.cs
  /\ bufOp' = [bufOp EXCEPT !.name = "slideBack"]
  /\ pc' = "restored"
  /\ UNCHANGED <<doc, previousRight, state, parsedPos, stoppedAt, region, compiler,
                 tree, parseNo, ev, born, prev>>

\* buffer.slide(index, offset, true)
SlideCut(index, offset) ==
  /\ pc = "done"
  /\ index < Len(buffer)
  /\ \E sl \in {BufferSlide(heap, buffer, index, offset, TRUE)} :
       /\ heap' = sl.h
       /\ buffer' = sl.cs
  /\ bufOp' = [name |-> "slideCut", index |-> index, offset |-> offset,
               before |-> Snapshot(heap, buffer), right |-> <<>>]
  /\ pc' = "cut"
  /\ UNCHANGED <<doc, previousRight, state, parsedPos, stoppedAt, region, compiler,
                 tree, parseNo, ev, born, prev>>

\* left.link(right, max); bufOp.offset records max
LinkMax(max) ==
  /\ pc = "split"
  /\ buffer' = BufferLink(heap, buffer, bufOp.right, max)
  /\ bufOp' = [bufOp EXCEPT !.name = "linkMax", !.offset = max]
  /\ pc' = "clamped"
  /\ UNCHANGED <<doc, heap, previousRight, state, parsedPos, stoppedAt, region,
                 compiler, tree, parseNo, ev, born, prev>>

\* buffer.search(pos, side, precise); bufOp.index records the index found
\* (-1 for null) and bufOp.offset the position searched
Search(pos, side, precise) ==
  /\ pc = "done"
  /\ bufOp' = [name |-> "search",
               index |-> IF precise THEN BufferSearchPrecise(heap, buffer, pos, side)
                         ELSE BufferSearch(heap, buffer, pos, side),
               offset |-> pos, before |-> Snapshot(heap, buffer), right |-> <<>>,
               side |-> side, precise |-> precise]
  /\ pc' = "searched"
  /\ UNCHANGED <<doc, heap, buffer, previousRight, state, parsedPos, stoppedAt, region,
                 compiler, tree, parseNo, ev, born, prev>>

SplitLink == (\E index \in 0..(Len(buffer) - 1) : Split(index)) \/ Link

SlideTwice ==
  (\E index \in 0..(Len(buffer) - 1) : \E offset \in Offsets : Slide(index, offset))
    \/ SlideBack

SplitClamp ==
  (\E index \in 0..(Len(buffer) - 1) : Split(index))
    \/ (\E max \in 0..(MaxLen + 1) : LinkMax(max))

SearchOnce ==
  \E pos \in (0 - 1)..(MaxLen + 1) : \E side \in {0 - 1, 0, 1} : \E precise \in BOOLEAN :
     Search(pos, side, precise)

SlideOnce ==
  \E index \in 0..(Len(buffer) - 1) : \E offset \in Offsets :
     Slide(index, offset) \/ SlideCut(index, offset)

\* Scratch and incremental parses, whose finished buffer is split and linked
SpecSplit == Init /\ [][Step \/ Edit \/ SplitLink]_vars

\* Scratch and incremental parses, whose finished buffer is slid and slid back
SpecSlide == Init /\ [][Step \/ Edit \/ SlideTwice]_vars

\* Scratch and incremental parses, whose finished buffer is split and linked
\* with a max
SpecClamp == Init /\ [][Step \/ Edit \/ SplitClamp]_vars

\* Scratch and incremental parses, whose finished buffer is searched
SpecSearch == Init /\ [][Step \/ Edit \/ SearchOnce]_vars

\* Scratch and incremental parses, whose finished buffer is slid once, with
\* cutLeft false or true
SpecCut == Init /\ [][Step \/ Edit \/ SlideOnce]_vars


\* ------------------------------------------------------------------------
\* Calls on a single Chunk and on a Compiler, outside of a parse
\* ------------------------------------------------------------------------
MaxTokens == 3
MaxIds == 2

\* The variables of the parser, which these calls do not touch
UnitVars ==
  <<doc, buffer, previousRight, state, parsedPos, stoppedAt, region, tree, parseNo,
    ev, born, prev>>

\* No parser: the heap holds the chunks h and the compiler is new
InitUnit(p, h) ==
  /\ doc = <<>>
  /\ heap = h
  /\ buffer = <<>>
  /\ previousRight = NoBuffer
  /\ state = StartState
  /\ parsedPos = 0
  /\ stoppedAt = NoStop
  /\ region = RegionNew(doc, NoEdit)
  /\ compiler = CompilerNew
  /\ pc = p
  /\ tree = NoTree
  /\ parseNo = 1
  /\ ev = NoEvent
  /\ born = <<>>
  /\ prev = NoPrev
  /\ bufOp = NoOp

\* A call on the chunk heap[1] that leaves it as c
ChunkOp(name, c) ==
  /\ pc = "chunk"
  /\ heap' = <<c>>
  /\ bufOp' = [NoOp EXCEPT !.name = name]
  /\ UNCHANGED <<pc, compiler>>
  /\ UNCHANGED UnitVars

\* chunk.add(id, from, to) of a token that starts at the chunk's to,
\* chunk.pushOpen(id), chunk.pushClose(id) and chunk.tryForTree(nodeSet)
ChunkCalls ==
  \/ \E id \in {LeafNode, NullId} : \E len \in 0..1 :
        /\ Len(heap[1].tokens) < MaxTokens
        /\ heap[1].length + len <= MaxTokens
        /\ ChunkOp("add", ChunkAdd(heap[1], id, heap[1].to, heap[1].to + len))
  \/ \E id \in {ParenNode, TeeNode} :
        /\ Len(heap[1].open) < MaxIds
        /\ ChunkOp("pushOpen", ChunkPushOpen(heap[1], <<id>>))
  \/ \E id \in {ParenNode, TeeNode} :
        /\ Len(heap[1].close) < MaxIds
        /\ ChunkOp("pushClose", ChunkPushClose(heap[1], <<id>>))
  \/ ChunkOp("tryForTree", ChunkTryForTree(heap[1]))

\* Any interleaving of add, pushOpen, pushClose and tryForTree on one chunk
SpecChunk == InitUnit("chunk", <<ChunkNew(0, StartState)>>) /\ [][ChunkCalls]_vars

MaxOps == 5
MaxFrames == 2

\* A call on the compiler that leaves it as comp.  bufOp records the call
\* (name, and its argument in index), the number of calls made so far in
\* offset, which is also the position of the chunk the call compiles, and in
\* `before` the frames pushed and not yet removed, as <<id, start, number of
\* records emitted before the push>>
CompileOp(name, arg, comp, pushed) ==
  /\ pc = "compile"
  /\ bufOp.offset < MaxOps
  /\ compiler' = comp
  /\ bufOp' = [NoOp EXCEPT !.name = name, !.index = arg, !.offset = bufOp.offset + 1,
                           !.before = pushed]
  /\ pc' = IF name = "finish" THEN "compiled" ELSE pc
  /\ UNCHANGED heap
  /\ UNCHANGED UnitVars

\* Compiler.parse of a chunk that has one open id and nothing else, of the
\* chunks that open an id until the stack arrays are full, of a chunk of k
\* tokens, and of a chunk that has one close id and nothing else; then the
\* loop of Compiler.compile that closes the frames left open
CompileCalls ==
  \/ \E id \in {ParenNode, TeeNode} :
        /\ Len(compiler.stack) < MaxFrames \/ Len(compiler.stack) >= COMPILER_STACK_SIZE
        /\ CompileOp("push", id,
                     [compiler EXCEPT !.stack = PushOpens(@, <<id>>, bufOp.offset, 1)],
                     Append(bufOp.before, <<id, bufOp.offset, compiler.size>>))
  \/ \E id \in {ParenNode, TeeNode} :
        /\ Len(compiler.stack) < MaxFrames
        /\ CompileOp("fill", id,
                     [compiler EXCEPT !.stack =
                        PushOpens(@, [i \in 1..(COMPILER_STACK_SIZE - Len(compiler.stack)) |-> id],
                                  bufOp.offset, 1)],
                     bufOp.before \o [i \in 1..(COMPILER_STACK_SIZE - Len(compiler.stack)) |->
                                        <<id, bufOp.offset, compiler.size>>])
  \/ \E k \in {1, Uint16 - 1} :
        CompileOp("emit", k, EmitRun(compiler, k), bufOp.before)
  \/ \E id \in {ParenNode, TeeNode} :
        \E closed \in {CloseNodes(compiler, <<id>>, bufOp.offset, 1)} :
           CompileOp("close", id, closed, SubSeq(bufOp.before, 1, Len(closed.stack)))
  \/ CompileOp("finish", 0, FinishIncomplete(compiler, bufOp.offset), <<>>)

\* Calls on a new Compiler
SpecCompile == InitUnit("compile", <<>>) /\ [][CompileCalls]_vars

\* ------------------------------------------------------------------------
\* Properties
\* ------------------------------------------------------------------------
\* A step that is one iteration of the match loop of Parser.nextChunk
IterStep == pc = "nextChunk" /\ ev'.n # ev.n

C2_EventuallyDone == <>(pc = "done")

\* Ids of the nodes that tokens carry (the other ids are the ids of states)
LeafIds == {BeginNode, EndNode, LeafNode, ERROR_ADVANCE}

RECURSIVE Flatten(_)
Flatten(ss) == IF ss = <<>> THEN <<>> ELSE Head(ss) \o Flatten(Tail(ss))

\* The tokens of a chunk as <<id, from, to>> with document positions
ChunkTokens(c) ==
  [i \in 1..Len(c.tokens) |-> <<c.tokens[i][1], c.from + c.tokens[i][2], c.from + c.tokens[i][3]>>]

\* Every token held by the buffer, in buffer order
BufferTokens(h, cs) == Flatten([i \in 1..Len(cs) |-> ChunkTokens(h[cs[i]])])

\* The leaf records <<id, from, to>> of a node buffer placed at `from`
LeafRecords(buf, from) ==
  Flatten([i \in 1..Len(buf) |->
             IF buf[i][4] # -1 /\ buf[i][1] \in LeafIds
             THEN << <<buf[i][1], from + buf[i][2], from + buf[i][3]>> >>
             ELSE <<>>])

\* The leaf records of a finished tree: those of the compiled buffer and
\* those inside the reused (memoized) subtrees it points to
TreeLeaves(t) ==
  Flatten([i \in 1..Len(t.compiled) |->
             IF t.compiled[i][4] = -1
             THEN LeafRecords(t.reused[t.compiled[i][1] + 1].buf, t.compiled[i][2])
             ELSE LeafRecords(<<t.compiled[i]>>, 0)])

\* C3: when finish() has built the tree, its leaf records are exactly the
\* tokens (with an id) held by the chunks of the buffer, one record per
\* token and in the same order, whatever the interleaving of ChunkBuffer.add
\* and Compiler.step was.
C3_LeafPerToken ==
  (pc = "done" /\ parseNo = 1) => TreeLeaves(tree) = BufferTokens(heap, tree.buffer)

\* C4: the GrammarState cached by a chunk of the buffer is the state the
\* parse had right before the match that gave the chunk its first token.
C4_CachedStateIsStateBefore ==
  \A i \in 1..Len(buffer) :
    (buffer[i] \in DOMAIN born /\ born[buffer[i]] # NoState)
      => StateEquals(heap[buffer[i]].state, born[buffer[i]])

\* C5: the chunks of the parser's buffer do not overlap and their from
\* positions are strictly increasing.
C5_ChunksStrictlyIncreasing ==
  \A i \in 1..Len(buffer) : \A j \in 1..Len(buffer) :
    i < j => /\ heap[buffer[i]].from < heap[buffer[j]].from
             /\ heap[buffer[i]].to <= heap[buffer[j]].from

\* The running parser was started from the tree of a parse of the same
\* text, with an edit that changes no length
NoOpEdit == parseNo > 1 /\ prev.doc = doc /\ region.edit.some /\ region.edit.offset = 0

\* The tokens held by the previous buffer when the running parser was built
PrevTokens == Flatten([i \in 1..Len(prev.chunks) |-> ChunkTokens(prev.chunks[i])])

\* C6: an incremental parse after a no-op edit ends with the tokens and the
\* leaf records that the parse from scratch of the same text ended with.
C6_NoOpEditSameOutput ==
  (pc = "done" /\ NoOpEdit) =>
     /\ BufferTokens(heap, tree.buffer) = PrevTokens
     /\ TreeLeaves(tree) = TreeLeaves([compiled |-> prev.compiled, reused |-> prev.reused])

\* C7: the tokens held by the parser's buffer are in strictly increasing
\* document order and no range of the document is covered by two of them.
C7_TokensStrictlyIncreasing ==
  LET toks == BufferTokens(heap, buffer)
  IN \A i \in 1..Len(toks) : \A j \in 1..Len(toks) :
       i < j => /\ toks[i][2] < toks[j][2]
                /\ toks[i][3] <= toks[j][2]

\* C8: when tryToReuse succeeded in an iteration of the match loop, the
\* position the parser continued from is the end (the `to` of the last
\* chunk) of the spliced buffer.
C8_ReuseJumpsToEnd == ev.reused => ev.pos = ev.spliceTo

\* What a previous tree's buffer shows of a chunk
ChunkData(c) ==
  [from |-> c.from, to |-> c.to, tokens |-> c.tokens, open |-> c.open, close |-> c.close]

\* C9: the chunks of the previous tree's buffer keep the from / to, tokens
\* and open / close lists they had when the running parser was constructed.
C9_PreviousBufferUntouched ==
  \A i \in 1..Len(prev.ids) : ChunkData(heap[prev.ids[i]]) = ChunkData(prev.chunks[i])

\* stopAt(p) was called and the parser's position has reached p
Stopped == stoppedAt # NoStop /\ parsedPos >= stoppedAt

\* C10: after stopAt(p), no match is performed at a position >= p; once
\* parsedPos >= p the running or next advance() performs no iteration of the
\* match loop and returns the finished tree instead of null; and when the
\* tree is built no frame is left on the compile stack.
C10_StopHonoured ==
  [][/\ (IterStep /\ stoppedAt # NoStop) => ev'.pos < stoppedAt
     /\ Stopped => ~IterStep
     /\ (Stopped /\ pc # "done" /\ pc' # pc)
          => (pc' = "done" \/ (pc = "ready" /\ pc' = "nextChunk"))
     /\ (pc' = "done" /\ stoppedAt' # NoStop) => compiler'.stack = <<>>]_vars

\* Every record <<id, from, to>> of a node buffer placed at `from`
NodeRecords(buf, from) ==
  {<<buf[i][1], from + buf[i][2], from + buf[i][3]>> : i \in 1..Len(buf)}

\* Every record of a finished tree: those of the compiled buffer and those
\* inside the reused subtrees it points to
TreeRecords(t) ==
  UNION {IF t.compiled[i][4] = -1
         THEN NodeRecords(t.reused[t.compiled[i][1] + 1].buf, t.compiled[i][2])
         ELSE NodeRecords(<<t.compiled[i]>>, 0) : i \in 1..Len(t.compiled)}

\* C11: the full parse of "(ab)" by repeated advance() gives an output with
\* the open node spanning [0,5), one leaf token spanning [1,3) and the begin
\* and end boundary tokens at [0,1) and [3,4); the open and the close action
\* are paired, so no frame is left for finish() to close.
C11_ParenAbOutput ==
  (pc = "done" /\ doc = <<"(", "a", "b", ")">>) =>
     /\ <<ParenNode, 0, 5>> \in TreeRecords(tree)
     /\ <<LeafNode, 1, 3>> \in TreeRecords(tree)
     /\ <<BeginNode, 0, 1>> \in TreeRecords(tree)
     /\ <<EndNode, 3, 4>> \in TreeRecords(tree)
     /\ tree.open = <<>>

\* The records at the end of the compiled buffer that close the k frames of
\* `open` (popped from the top) at position len, each after one marker
ClosedIncomplete(compiled, open, len) ==
  LET k == Len(open)
      n == Len(compiled)
  IN /\ n >= 2 * k
     /\ \A j \in 1..k :
          /\ compiled[n - 2 * k + 2 * j - 1] = <<ERROR_INCOMPLETE, len, len, 4>>
          /\ compiled[n - 2 * k + 2 * j][1] = open[k + 1 - j][1]
          /\ compiled[n - 2 * k + 2 * j][2] = open[k + 1 - j][2]
          /\ compiled[n - 2 * k + 2 * j][3] = len
     /\ Cardinality({i \in 1..n : compiled[i][1] = ERROR_INCOMPLETE /\ compiled[i][4] # -1}) = k

\* C12: when finish() has compiled the tree the CompileStack is empty, and
\* every frame that was left open is closed at the end position of the
\* document right after one ERROR_INCOMPLETE marker of its own; for "(ab"
\* that is one marker and the Paren node closed at 3.
C12_IncompleteClosed ==
  pc = "done" =>
     /\ compiler.stack = <<>>
     /\ ClosedIncomplete(tree.compiled, tree.open, Len(doc))
     /\ doc = <<"(", "a", "b">> =>
          /\ Len(tree.open) = 1
          /\ <<ParenNode, 0, 3>> \in TreeRecords(tree)

\* "(ab" has been parsed and finish() closed its Paren frame
C12_Witness ==
  /\ pc = "done" /\ doc = <<"(", "a", "b">>
  /\ Len(tree.open) = 1 /\ tree.open[1][1] = ParenNode
  /\ Len(tree.compiled) >= 2

\* C13: when no rule matches anywhere in a document of n characters (every
\* character is a ")" met in the root frame), the full parse ends with an
\* output of exactly n error tokens, one per character, at [i, i+1).
C13_ErrorTokenPerChar ==
  (pc = "done" /\ parseNo = 1 /\ \A i \in 1..Len(doc) : doc[i] = ")") =>
     TreeLeaves(tree) = [i \in 1..Len(doc) |-> <<ERROR_ADVANCE, i - 1, i>>]

\* C14: an iteration of the match loop in which Grammar.match returned null
\* at pos appends exactly one token [ERROR_ADVANCE, pos, pos + 1] to the
\* last chunk of the buffer, adds no other token anywhere, and leaves
\* parsedPos at pos + 1; the parse goes on (or ends) as after a match.
C14_FailedMatchRecovers ==
  [][(IterStep /\ ~ev'.ok) =>
       /\ parsedPos' = ev'.pos + 1
       /\ buffer' # <<>>
       /\ LET id == Last(buffer')
              c == heap'[id]
          IN /\ c.tokens = Append(IF id \in DOMAIN heap THEN heap[id].tokens ELSE <<>>,
                                  <<ERROR_ADVANCE, ev'.pos - c.from, ev'.pos + 1 - c.from>>)
             /\ \A j \in DOMAIN heap' \ {id} : j \in DOMAIN heap /\ heap'[j].tokens = heap[j].tokens
       /\ pc' \in {"nextChunk", "ready", "done"}]_vars

\* An iteration found no match and the parser stands one character further
C14_Witness ==
  /\ ~ev.ok /\ ev.len = 1 /\ parsedPos = ev.pos + 1
  /\ buffer # <<>> /\ heap[Last(buffer)].tokens # <<>>
  /\ Last(heap[Last(buffer)].tokens)[1] = ERROR_ADVANCE

\* C15 (as stated): after {left, right} = split(i) and left.link(right) the
\* chunk list has as many chunks as the original buffer, and every chunk has
\* the from and the to of the original chunk at its place.
C15_SplitLinkSamePositions ==
  pc = "linked" =>
     /\ Len(buffer) = Len(bufOp.before)
     /\ \A i \in 1..Len(buffer) :
          /\ heap[buffer[i]].from = bufOp.before[i].from
          /\ heap[buffer[i]].to = bufOp.before[i].to

\* C15 (amended): after {left, right} = split(i) and left.link(right) the
\* chunk list has as many chunks as the original buffer and every chunk has
\* the from of the original chunk at its place; every chunk but the one at i
\* is the original chunk, with its to; the chunk at i is a new, empty chunk
\* (no tokens, to = from) with the from and the state of the original one.
C15_SplitLinkSameFrom ==
  pc = "linked" =>
     /\ Len(buffer) = Len(bufOp.before)
     /\ \A i \in 1..Len(buffer) :
          /\ heap[buffer[i]].from = bufOp.before[i].from
          /\ i # bufOp.index + 1 => heap[buffer[i]] = bufOp.before[i]
          /\ i = bufOp.index + 1 =>
               /\ heap[buffer[i]].to = heap[buffer[i]].from
               /\ heap[buffer[i]].tokens = <<>>
               /\ StateEquals(heap[buffer[i]].state, bufOp.before[i].state)

\* A buffer of several chunks was split at a chunk that held tokens, and
\* linked again
C15_Witness ==
  /\ pc = "linked" /\ Len(buffer) > 1 /\ bufOp.right # <<>>
  /\ bufOp.before[bufOp.index + 1].tokens # <<>>
  /\ bufOp.before[bufOp.index + 1].to # heap[buffer[bufOp.index + 1]].to

\* C16: slide(index, offset) followed by slide(index, -offset) leaves every
\* chunk of the buffer with the from and the to it had before, also when
\* the buffer holds a single chunk.
C16_SlideInverse ==
  pc = "restored" =>
     /\ Len(buffer) = Len(bufOp.before)
     /\ \A i \in 1..Len(buffer) :
          /\ heap[buffer[i]].from = bufOp.before[i].from
          /\ heap[buffer[i]].to = bufOp.before[i].to

\* A buffer of several chunks, some of them not moved, was slid by a
\* non-zero offset and back
C16_Witness ==
  /\ pc = "restored" /\ bufOp.offset # 0
  /\ Len(buffer) > 1 /\ bufOp.index > 0
  /\ heap[Last(buffer)].length > 0

\* C17: open ids are only recorded on a chunk that has no content yet: a
\* step that adds open ids to a chunk that existed before finds it without
\* tokens and with length 0 (a token with an open action that meets a chunk
\* holding tokens starts a new chunk), so the open ids of a chunk precede
\* all of its tokens.
C17_OpenOnlyOnEmptyChunk ==
  [][\A id \in DOMAIN heap' :
       (id \in DOMAIN heap /\ heap'[id].open # heap[id].open)
         => (heap[id].tokens = <<>> /\ heap[id].length = 0)]_vars

\* C18: an iteration that splices previousRight found in it a chunk whose
\* from plus the edit's offset is the current parsedPos and whose cached
\* state equals the current state; the chunk taken is the first such chunk
\* in chunk order, the chunks before it are not in the parser's buffer
\* afterwards, and what is spliced is previousRight from that chunk on, in
\* order (up to where link clamps it).
C18_ReuseFirstFittingChunk ==
  [][(IterStep /\ ev'.reused) =>
       LET right == previousRight.chunks
           Fits(i) == /\ heap[right[i]].from + region.edit.offset = parsedPos
                      /\ StateEquals(heap[right[i]].state, state)
       IN /\ previousRight.some
          /\ \E k \in 1..Len(right) :
               /\ Fits(k)
               /\ \A j \in 1..(k - 1) : ~Fits(j)
               /\ k = ev'.idx + 1
               /\ \A j \in 1..(k - 1) : \A i \in 1..Len(buffer') : buffer'[i] # right[j]
               /\ LET all == buffer \o SubSeq(right, k, Len(right))
                  IN \E n \in 0..Len(all) :
                       /\ n <= Len(buffer')
                       /\ SubSeq(buffer', 1, n) = SubSeq(all, 1, n)
                       /\ \A i \in (n + 1)..Len(buffer') : buffer'[i] \notin DOMAIN heap]_vars

\* An iteration spliced previousRight from its second or a later chunk on:
\* the chunks before it were dropped
C18_Witness ==
  /\ ev.reused /\ ev.idx > 0
  /\ \E i \in 1..Len(prev.ids) :
       /\ prev.chunks[i].from > region.from
       /\ \A j \in 1..Len(buffer) : buffer[j] # prev.ids[i]

\* C19: previousRight is spliced only by an iteration that starts with
\* parsedPos strictly past the end of the edited region, in a parse that has
\* an edit descriptor; the iteration that splices it discards it, and once
\* the parser has no previousRight no later step of the parse gives it one
\* or splices again.
C19_ReuseOncePastEdit ==
  [][/\ (IterStep /\ ev'.reused) =>
          /\ region.edit.some
          /\ parsedPos > region.edit.to
          /\ previousRight.some
          /\ ~previousRight'.some
     /\ (~previousRight.some /\ parseNo' = parseNo) =>
          /\ ~previousRight'.some
          /\ IterStep => ~ev'.reused]_vars

\* The last iteration spliced previousRight, which is gone
C19_Witness == ev.reused /\ ~previousRight.some /\ ev.before > region.edit.to /\ parseNo > 1

\* A step that constructs a parser
Constructs == parseNo' = parseNo + 1

\* C20: a parser constructed from a tree that carries a ChunkBuffer starts
\* ready to match with: as buffer the chunks of that buffer up to the chunk
\* at or before the edit's start, the last of them replaced by an empty
\* chunk; parsedPos at that chunk's from; as state a copy of that chunk's
\* cached state; and as previousRight the chunks after it.  A parser
\* constructed without such a buffer starts with an empty buffer, the start
\* state and no previousRight.
C20_ConstructorResumes ==
  [][Constructs =>
       LET old == tree.buffer
           e == region'.edit.from
           AtOrBefore(i) ==
             /\ heap[old[i]].from <= e
             /\ \A j \in 1..Len(old) :
                  ~(heap[old[j]].from <= e /\ heap[old[j]].from > heap[old[i]].from)
       IN /\ pc' = "ready"
          /\ IF old # <<>>
             THEN \E i \in 1..Len(old) :
                    /\ AtOrBefore(i)
                    /\ Len(buffer') = i
                    /\ \A j \in 1..(i - 1) : buffer'[j] = old[j]
                    /\ buffer'[i] \notin DOMAIN heap
                    /\ heap'[buffer'[i]].from = heap[old[i]].from
                    /\ heap'[buffer'[i]].to = heap[old[i]].from
                    /\ heap'[buffer'[i]].length = 0
                    /\ heap'[buffer'[i]].tokens = <<>>
                    /\ heap'[buffer'[i]].open = <<>>
                    /\ heap'[buffer'[i]].close = <<>>
                    /\ StateEquals(heap'[buffer'[i]].state, heap[old[i]].state)
                    /\ parsedPos' = heap[old[i]].from
                    /\ StateEquals(state', heap[old[i]].state)
                    /\ previousRight'.some
                    /\ previousRight'.chunks = SubSeq(old, i + 1, Len(old))
             ELSE /\ buffer' = <<>>
                  /\ StateEquals(state', StartState)
                  /\ parsedPos' = 0
                  /\ ~previousRight'.some]_vars

\* A parser was constructed on a buffer of several chunks that it split
\* after the first chunk, and has not matched yet
C20_Witness ==
  /\ parseNo > 1 /\ pc = "ready" /\ ev = NoEvent
  /\ Len(buffer) > 1 /\ previousRight.some /\ previousRight.chunks # <<>>
  /\ heap[Last(buffer)].tokens = <<>>
  /\ parsedPos = heap[Last(buffer)].from /\ parsedPos > 0

\* The position in the finished buffer of the chunk the running parser
\* resumed on: the cleared chunk that split() put at the end of the reused
\* left buffer, the first chunk that the previous buffer does not hold
\* (0 when the parser reused nothing)
ResumedIndex ==
  IF parseNo > 1 /\ prev.ids # <<>>
     /\ \E i \in 1..Len(tree.buffer) : \A j \in 1..Len(prev.ids) : tree.buffer[i] # prev.ids[j]
  THEN CHOOSE i \in 1..Len(tree.buffer) :
         /\ \A j \in 1..Len(prev.ids) : tree.buffer[i] # prev.ids[j]
         /\ \A k \in 1..(i - 1) : \E j \in 1..Len(prev.ids) : tree.buffer[k] = prev.ids[j]
  ELSE 0

\* C21: after a left reuse, every token that matching appended to the resumed,
\* cleared last chunk of the left buffer is a leaf record of the tree built by
\* finish(): the compiler's catch-up in the constructor loses none of them.
C21_CatchUpKeepsTokens ==
  (pc = "done" /\ ResumedIndex # 0) =>
     \A k \in 1..Len(ChunkTokens(heap[tree.buffer[ResumedIndex]])) :
        \E r \in 1..Len(TreeLeaves(tree)) :
           TreeLeaves(tree)[r] = ChunkTokens(heap[tree.buffer[ResumedIndex]])[k]

\* C22: split(index) on a valid index returns left holding the chunks
\* 0..index of the buffer, the last of them replaced by a new empty chunk
\* (no tokens, no open / close ids, to = from) at the same from with an equal
\* state, and right holding exactly the chunks after index (none for a buffer
\* of one chunk); the buffer split was called on keeps its chunks as they were.
C22_SplitResult ==
  pc = "split" =>
     /\ Len(buffer) = bufOp.index + 1
     /\ \A i \in 1..bufOp.index :
          buffer[i] = tree.buffer[i] /\ heap[buffer[i]] = bufOp.before[i]
     /\ \A i \in 1..Len(tree.buffer) : Last(buffer) # tree.buffer[i]
     /\ ChunkData(heap[Last(buffer)]) =
          [from |-> bufOp.before[bufOp.index + 1].from,
           to |-> bufOp.before[bufOp.index + 1].from,
           tokens |-> <<>>, open |-> <<>>, close |-> <<>>]
     /\ heap[Last(buffer)].length = 0
     /\ StateEquals(heap[Last(buffer)].state, bufOp.before[bufOp.index + 1].state)
     /\ bufOp.right = SubSeq(tree.buffer, bufOp.index + 2, Len(tree.buffer))
     /\ Len(bufOp.before) = 1 => bufOp.right = <<>>
     /\ Snapshot(heap, tree.buffer) = bufOp.before

\* A buffer of several chunks was split at a chunk that holds tokens and is
\* neither its first nor its last chunk
C22_Witness ==
  /\ pc = "split" /\ bufOp.index > 0 /\ bufOp.right # <<>>
  /\ bufOp.before[bufOp.index + 1].tokens # <<>>

\* The number of chunks slide removed from the front of the buffer
SlideRemoved == IF pc = "cut" /\ Len(bufOp.before) # 1 THEN bufOp.index ELSE 0

\* C23: slide(index, offset, cutLeft) leaves in the buffer, in their order,
\* the chunks it held (all of them when cutLeft is false, those from index on
\* when cutLeft is true); the chunks at or after index have offset added to
\* from and to, and nothing else of any chunk changes, whether the buffer
\* holds one chunk or several.
C23_SlideEffect ==
  (pc = "slid" \/ pc = "cut") =>
     /\ Len(buffer) = Len(bufOp.before) - SlideRemoved
     /\ \A i \in 1..Len(buffer) :
          /\ buffer[i] = tree.buffer[i + SlideRemoved]
          /\ heap[buffer[i]] =
               IF i + SlideRemoved > bufOp.index
               THEN [bufOp.before[i + SlideRemoved] EXCEPT !.from = @ + bufOp.offset,
                                                           !.to = @ + bufOp.offset]
               ELSE bufOp.before[i + SlideRemoved]
     /\ \A j \in 1..SlideRemoved : heap[tree.buffer[j]] = bufOp.before[j]

\* A buffer of several chunks was slid by a non-zero offset from a chunk that
\* is not its first one, with cutLeft true
C23_Witness ==
  /\ pc = "cut" /\ bufOp.index > 0 /\ bufOp.offset # 0
  /\ Len(buffer) > 1 /\ Len(buffer) < Len(bufOp.before)

\* C24: left.link(right, max) with a max leaves in the buffer the longest
\* prefix of left's chunks followed by right's chunks in which every chunk has
\* to <= max, and drops none of left's own chunks whose to <= max.
C24_LinkClampsToMax ==
  [][pc' = "clamped" =>
       /\ Len(buffer') <= Len(buffer \o bufOp.right)
       /\ buffer' = SubSeq(buffer \o bufOp.right, 1, Len(buffer'))
       /\ \A i \in 1..Len(buffer') : heap[buffer'[i]].to <= bufOp'.offset
       /\ Len(buffer') < Len(buffer \o bufOp.right)
            => heap[(buffer \o bufOp.right)[Len(buffer') + 1]].to > bufOp'.offset
       /\ \A i \in 1..Len(buffer) :
            heap[buffer[i]].to <= bufOp'.offset => i <= Len(buffer')]_vars

C26_AddClosesChunk ==
  [][/\ IterStep => ((pc' # "nextChunk") <=> (Len(heap') > Len(heap)))
     /\ \A id \in 1..Len(heap') :
          (/\ IterStep
           /\ heap'[id].close # <<>>
           /\ (id > Len(heap) \/ heap'[id].close # heap[id].close))
            => /\ Len(buffer') > 1
               /\ buffer'[Len(buffer') - 1] = id
               /\ Last(buffer') > Len(heap)
               /\ ChunkData(heap'[Last(buffer')]) =
                    [from |-> heap'[id].to, to |-> heap'[id].to,
                     tokens |-> <<>>, open |-> <<>>, close |-> <<>>]
     /\ \A id \in 1..Len(heap) :
          heap[id].close # <<>>
            => /\ heap'[id].tokens = heap[id].tokens
               /\ heap'[id].length = heap[id].length
               /\ heap'[id].open = heap[id].open
               /\ heap'[id].close = heap[id].close]_vars

\* An iteration of an incremental parse added a token with close ids: the
\* buffer ends with a new empty chunk that follows the chunk it closed
C26_Witness ==
  /\ pc = "ready" /\ parseNo > 1 /\ ev.ok /\ Len(buffer) > 1
  /\ \A i \in 1..Len(prev.ids) : prev.ids[i] # Last(buffer)
  /\ heap[buffer[Len(buffer) - 1]].close # <<>>
  /\ heap[buffer[Len(buffer) - 1]].tokens # <<>>
  /\ heap[Last(buffer)].tokens = <<>> /\ heap[Last(buffer)].from = heap[buffer[Len(buffer) - 1]].to

\* C27: Chunk.tryForTree yields a subtree, kept in the chunk, exactly when the
\* chunk holds more than one token and either has no open and no close ids or
\* has as many close ids as open ids, the close list being the open list
\* reversed; in every other case it yields null.
C27_TreeWhenConvertible ==
  \A id \in 1..Len(heap) :
    (pc = "chunk" /\ bufOp.name = "tryForTree") =>
       /\ heap[id].tree.kind \in {"tree", "null"}
       /\ heap[id].tree.kind = "tree" <=>
            /\ Len(heap[id].tokens) > 1
            /\ \/ heap[id].open = <<>> /\ heap[id].close = <<>>
               \/ /\ heap[id].open # <<>>
                  /\ Len(heap[id].close) = Len(heap[id].open)
                  /\ \A i \in 1..Len(heap[id].open) :
                       heap[id].close[i] = heap[id].open[Len(heap[id].open) + 1 - i]

\* tryForTree returned a tree for a chunk with two open ids and the mirrored
\* close ids
C27_Witness ==
  /\ pc = "chunk" /\ bufOp.name = "tryForTree" /\ heap[1].tree.kind = "tree"
  /\ Len(heap[1].open) = 2 /\ heap[1].open[1] # heap[1].open[2]

\* C28: a chunk's cached subtree is never stale: a tree returned by
\* tryForTree after any interleaving of add, pushOpen, pushClose and
\* tryForTree is the tree of the chunk's current tokens and open ids, and a
\* cached "not convertible" result does not survive a change of the chunk.
C28_CachedTreeFresh ==
  [][\A id \in 1..Len(heap') :
       /\ (bufOp'.name = "tryForTree" /\ heap'[id].tree.kind = "tree")
            => /\ heap'[id].tree.buf = ChunkTreeBuffer(heap'[id])
               /\ heap'[id].tree.length = heap'[id].length
       /\ (id <= Len(heap) /\ ChunkData(heap'[id]) # ChunkData(heap[id]))
            => heap'[id].tree.kind = "undef"]_vars

\* tryForTree returned a tree for a chunk that holds open ids and as many
\* tokens as the bound allows
C28_Witness ==
  /\ pc = "chunk" /\ bufOp.name = "tryForTree" /\ heap[1].tree.kind = "tree"
  /\ Len(heap[1].tokens) = MaxTokens /\ heap[1].open # <<>>

\* C29: when the compiler processes a close id for which a frame was pushed
\* and is still open, it closes the most recently pushed frame with that id:
\* the frames pushed after it are removed and no record is emitted for them,
\* one parent record of that id is emitted, from the frame's recorded start to
\* the chunk's to, and the frames pushed before it stay on the stack in their
\* order.
C29_CloseMostRecentFrame ==
  [][LET pushed == bufOp.before
         hits == {i \in 1..Len(pushed) : pushed[i][1] = bufOp'.index}
     IN (bufOp'.name = "close" /\ hits # {}) =>
           \E m \in hits :
              /\ \A i \in hits : i <= m
              /\ Len(compiler'.stack) = m - 1
              /\ \A i \in 1..(m - 1) :
                   /\ compiler'.stack[i][1] = pushed[i][1]
                   /\ compiler'.stack[i][2] = pushed[i][2]
              /\ Len(compiler'.compiled) = Len(compiler.compiled) + 1
              /\ Last(compiler'.compiled)[1] = pushed[m][1]
              /\ Last(compiler'.compiled)[2] = pushed[m][2]
              /\ Last(compiler'.compiled)[3] = bufOp.offset]_vars

\* C30: every parent record the compiler emits, on a close id or when it
\* closes the frames left open at the end, has a size field equal to 4 times
\* the number of records emitted since its frame was pushed, plus 4, for any
\* number of such records.
C30_ParentSize ==
  [][/\ (bufOp'.name = "close" /\ Len(compiler'.compiled) > Len(compiler.compiled)) =>
          Last(compiler'.compiled)[4] =
            4 * (compiler.size - bufOp.before[Len(compiler'.stack) + 1][3]) + 4
     /\ bufOp'.name = "finish" =>
          \A j \in 1..Len(compiler.stack) :
             compiler'.compiled[Len(compiler.compiled) + 2 * j][4] =
               4 * (compiler.size + 2 * j - 1
                      - bufOp.before[Len(compiler.stack) + 1 - j][3]) + 4]_vars

\* C31: a close id for which the compile stack holds no frame with that id
\* is ignored by the compiler: no record is emitted for it and the stack is
\* left unchanged.
C31_UnpairedCloseIgnored ==
  [][(/\ bufOp'.name = "close"
      /\ \A i \in 1..Len(compiler.stack) : compiler.stack[i][1] # bufOp'.index) =>
        /\ compiler'.stack = compiler.stack
        /\ compiler'.compiled = compiler.compiled
        /\ compiler'.size = compiler.size]_vars

\* A close id was processed while frames of the other id were open, and no
\* parent record has been emitted
C31_Witness ==
  /\ pc = "compile"
  /\ bufOp.name = "close"
  /\ compiler.stack # <<>>
  /\ \A i \in 1..Len(compiler.stack) : compiler.stack[i][1] # bufOp.index
  /\ compiler.compiled = <<>>

\* ------------------------------------------------------------------------
\* Calls of Grammar.match alone, as the match loop makes them
\* ------------------------------------------------------------------------
\* grammar.match(state, str, pos, pos) of a grammar g at parsedPos, which
\* then moves by the length of the match, or by 1 when there is none.  bufOp
\* records the call: the position in index, the state it was given in
\* before, its result in right and the grammar in grammar.
MatchOnce ==
  /\ pc = "ready"
  /\ parsedPos < Len(doc)
  /\ \E g \in Grammars : \E m \in {GrammarMatchIn(g, state, doc, parsedPos, parsedPos)} :
        /\ state' = IF m.ok THEN m.state ELSE state
        /\ parsedPos' = parsedPos + (IF m.ok THEN m.length ELSE 1)
        /\ bufOp' = [name |-> "match", index |-> parsedPos, offset |-> 0,
                     before |-> state, right |-> m, grammar |-> g]
  /\ UNCHANGED <<doc, heap, buffer, previousRight, stoppedAt, region, compiler, pc,
                 tree, parseNo, ev, born, prev>>

\* Matches of every grammar of Grammars along every document
SpecGrammar == InitOn(Docs) /\ [][MatchOnce]_vars

\* C32: Grammar.match tries, in this order and returning the first success,
\* the end rule of the top stack frame (when it has one), the top frame's
\* rules in list order, the global rules in list order, and last the
\* single-character default node; it returns null only when nothing matched
\* and the grammar defines no default.
C32_MatchOrder ==
  bufOp.name = "match" =>
    LET g == bufOp.grammar
        st == bufOp.before
        pos == bufOp.index
        res == bufOp.right
        top == StackTop(st)
        Try(rule) == RuleMatch(rule, st, doc, pos, pos)
        ended == FrameHasEnd(top) /\ EndMatch(top, st, doc, pos, pos).ok
        inFrame == {i \in 1..Len(g.rules[top]) : Try(g.rules[top][i]).ok}
        inGlobal == {i \in 1..Len(g.global) : Try(g.global[i]).ok}
    IN /\ ended => res = EndMatch(top, st, doc, pos, pos)
       /\ (~ended /\ inFrame # {}) =>
            \E i \in inFrame : /\ \A j \in inFrame : i <= j
                               /\ res = Try(g.rules[top][i])
       /\ (~ended /\ inFrame = {} /\ inGlobal # {}) =>
            \E i \in inGlobal : /\ \A j \in inGlobal : i <= j
                                /\ res = Try(g.global[i])
       /\ (~ended /\ inFrame = {} /\ inGlobal = {} /\ g.default # NullId) =>
            res = Match(st, 1, <<Tok(g.default, pos, pos + 1, <<>>, <<>>)>>)
       /\ ~res.ok <=> (~ended /\ inFrame = {} /\ inGlobal = {} /\ g.default = NullId)

\* Inside parens, at a "t" that no rule of the frame matches, the global
\* rules Any and Tee both match and the grammar has a default node: the
\* result is the match of Tee, the first of the two in the list
C32_Witness ==
  /\ bufOp.name = "match"
  /\ StackTop(bufOp.before) = "paren"
  /\ bufOp.grammar.rules["paren"] = <<"Paren", "Leaf">>
  /\ bufOp.grammar.global = <<"Tee", "Any">>
  /\ bufOp.grammar.default = DefaultNode
  /\ doc[bufOp.index + 1] = "t"
  /\ StackTop(bufOp.right.state) = "tee"

\* C33: when the top frame's end rule matches, Grammar.match returns the
\* match wrapped as an END fragment of that frame's node and the resulting
\* state has exactly that one frame popped; the root frame, which has no end
\* rule, is never popped, so the grammar stack is never empty.
C33_EndPopsOneFrame ==
  /\ state.stack # <<>>
  /\ state.stack[1] = "root"
  /\ ~FrameHasEnd("root")
  /\ (/\ bufOp.name = "match"
      /\ FrameHasEnd(StackTop(bufOp.before))
      /\ EndMatch(StackTop(bufOp.before), bufOp.before, doc, bufOp.index, bufOp.index).ok) =>
        /\ bufOp.right.ok
        /\ bufOp.right.state.stack =
             SubSeq(bufOp.before.stack, 1, Len(bufOp.before.stack) - 1)
        /\ state = bufOp.right.state
        /\ Len(bufOp.right.tokens) = 1
        /\ bufOp.right.tokens[1].open = <<>>
        /\ bufOp.right.tokens[1].close =
             <<IF StackTop(bufOp.before) = "paren" THEN ParenNode ELSE TeeNode>>

\* Two nested paren frames were open and the ")" matched by the end rule of
\* the inner one left the outer one on top
C33_Witness ==
  /\ bufOp.name = "match"
  /\ bufOp.before.stack = <<"root", "paren", "paren">>
  /\ doc[bufOp.index + 1] = ")"
  /\ state.stack = <<"root", "paren">>

\* ------------------------------------------------------------------------
\* Rule.match and the context setters of a rule, on a GrammarState with a
\* context table.  Strings are sequences of characters.  A string of a
\* definition that is subject to substitution is [kind, text]: "none" when
\* absent, "lit" for a plain string, "var" for "$x", which expands to the
\* value of the context variable x, and (for `matches`) "re" for a regular
\* expression, here the one that matches the strings that start with text.
\* A rule is
\*   [char, behind, ahead, immediate, rematch, setters, captures]
\* whose pattern matches the one character char at pos with that character
\* as its only capture, whose lookbehind (lookahead) wants the character
\* behind (ahead) of None for no such guard, and whose captures lists per
\* capture a node ("node") or a capture condition ("fn": matches, and
\* whether it has a `then` and an `else` node).
\* ------------------------------------------------------------------------
MaxRuleLen == 2

\* `undefined` where a string is expected
NoString == <<"undefined">>

None == [kind |-> "none", text |-> <<>>]
Lit(s) == [kind |-> "lit", text |-> s]
Var == [kind |-> "var", text |-> <<>>]
Re(s) == [kind |-> "re", text |-> s]

\* GrammarState.sub: the string, or the value of the context variable
\* (NoString when it is not set)
Sub(st, e) == IF e.kind = "var" THEN st.context ELSE e.text

\* `matches` against a string: matches.test(against) for a regular
\* expression, matches === against for a string
Passes(st, m, against) ==
  IF m.kind = "re"
  THEN Len(against) >= Len(m.text) /\ SubSeq(against, 1, Len(m.text)) = m.text
  ELSE Sub(st, m) # NoString /\ Sub(st, m) = against

\* The function contextSetter returns, applied to the state
ContextSetter(setter, st) ==
  LET against == IF setter.if.kind # "none" THEN Sub(st, setter.if) ELSE st.last
  IN IF setter.if.kind # "none" \/ setter.matches.kind # "none"
     THEN IF against = NoString THEN st
          ELSE IF setter.matches.kind # "none" /\ ~Passes(st, setter.matches, against)
               THEN st
               ELSE [st EXCEPT !.context = setter.to]
     ELSE [st EXCEPT !.context = setter.to]

\* for (i...) this.contextSetters[i](state)
RECURSIVE ApplySetters(_, _, _)
ApplySetters(setters, st, i) ==
  IF i > Len(setters) THEN st
  ELSE ApplySetters(setters, ContextSetter(setters[i], st), i + 1)

\* The function captureFunction returns: a node ("node") or passed
CaptureFunction(cond, st, capture) ==
  LET passed == Passes(st, cond.matches, capture)
  IN IF passed /\ cond.then THEN "node"
     ELSE IF ~passed /\ cond.else THEN "node"
     ELSE IF passed THEN "true" ELSE "false"

\* Rule.exec of a pattern rule: the MatchOutput [total, captures], with the
\* total NoString for null
RuleExec(rule, str, pos) ==
  IF CharAt(str, pos) = rule.char
  THEN [total |-> <<rule.char>>, captures |-> <<<<rule.char>>>>]
  ELSE [total |-> NoString, captures |-> <<>>]

\* Rule.match with the context setters applied before the pattern is tried,
\* immediate or not
RuleDotMatchSetsFirst(rule, st, str, pos) ==
  IF rule.behind # None /\ (pos = 0 \/ CharAt(str, pos - 1) # rule.behind.text[1])
  THEN [ok |-> FALSE, state |-> st, length |-> 0]
  ELSE With(ApplySetters(rule.setters, st, 1), LAMBDA s1 :
       With(RuleExec(rule, str, pos), LAMBDA out :
         IF out.total = NoString THEN [ok |-> FALSE, state |-> s1, length |-> 0]
         ELSE IF rule.ahead # None /\ CharAt(str, pos + Len(out.total)) # rule.ahead.text[1]
         THEN [ok |-> FALSE, state |-> s1, length |-> 0]
         ELSE IF rule.rematch THEN [ok |-> TRUE, state |-> s1, length |-> 0]
         ELSE With([s1 EXCEPT !.last = out.total], LAMBDA s2 :
           IF \E i \in 1..Len(rule.captures) :
                /\ rule.captures[i].kind = "fn"
                /\ CaptureFunction(rule.captures[i], s2, out.captures[i]) = "false"
           THEN [ok |-> FALSE, state |-> s2, length |-> 0]
           ELSE [ok |-> TRUE,
                 state |-> s2,
                 length |-> Len(out.total)])))

\* Rule.match(state, str, pos): [ok, state, length], where ok is FALSE for
\* null and state is the GrammarState as the call leaves it
RuleDotMatch(rule, st, str, pos) ==
  IF rule.behind # None /\ (pos = 0 \/ CharAt(str, pos - 1) # rule.behind.text[1])
  THEN [ok |-> FALSE, state |-> st, length |-> 0]
  ELSE With(IF rule.immediate THEN ApplySetters(rule.setters, st, 1) ELSE st, LAMBDA s1 :
       With(RuleExec(rule, str, pos), LAMBDA out :
         IF out.total = NoString THEN [ok |-> FALSE, state |-> s1, length |-> 0]
         ELSE IF rule.ahead # None /\ CharAt(str, pos + Len(out.total)) # rule.ahead.text[1]
         THEN [ok |-> FALSE, state |-> s1, length |-> 0]
         ELSE IF rule.rematch THEN [ok |-> TRUE, state |-> s1, length |-> 0]
         ELSE With([s1 EXCEPT !.last = out.total], LAMBDA s2 :
           IF \E i \in 1..Len(rule.captures) :
                /\ rule.captures[i].kind = "fn"
                /\ CaptureFunction(rule.captures[i], s2, out.captures[i]) = "false"
           THEN [ok |-> FALSE, state |-> s2, length |-> 0]
           ELSE [ok |-> TRUE,
                 state |-> IF rule.immediate THEN s2 ELSE ApplySetters(rule.setters, s2, 1),
                 length |-> Len(out.total)])))

\* The context setters of the modelled rules: unconditional, with `if`
\* only, with `matches` only and with both; each sets the variable to "b"
Setters ==
  {[if |-> i, matches |-> m, to |-> <<"b">>] :
     i \in {None, Var, Lit(<<"a">>)},
     m \in {None, Lit(<<"a">>), Lit(<<"b">>), Re(<<>>)}}

\* The modelled rules: no context setter or one, no captures list, a node,
\* or a capture condition that the capture "a" passes, fails, or fails with
\* an `else` node
Rules ==
  {[char |-> "a", behind |-> lb, ahead |-> la, immediate |-> im, rematch |-> rm,
    setters |-> ss, captures |-> cs] :
     lb \in {None, Lit(<<"a">>)}, la \in {None, Lit(<<"b">>)},
     im \in BOOLEAN, rm \in BOOLEAN,
     ss \in {<<>>} \cup {<<s>> : s \in Setters},
     cs \in {<<>>, <<[kind |-> "node"]>>,
             <<[kind |-> "fn", matches |-> Lit(<<"a">>), then |-> FALSE, else |-> FALSE]>>,
             <<[kind |-> "fn", matches |-> Lit(<<"b">>), then |-> FALSE, else |-> FALSE]>>,
             <<[kind |-> "fn", matches |-> Lit(<<"b">>), then |-> FALSE, else |-> TRUE]>>}}

\* A GrammarState whose context variable is not set, is empty or is "a", and
\* whose last match is none, "a" or "b", on a document over "a" and "b"
InitRule ==
  /\ doc \in {d \in ParenDocs : Len(d) <= MaxRuleLen /\ \A i \in 1..Len(d) : d[i] \in LeafChars}
  /\ heap = <<>>
  /\ buffer = <<>>
  /\ previousRight = NoBuffer
  /\ state \in {[stack |-> <<"root">>, context |-> c, last |-> l] :
                  c \in {NoString, <<>>, <<"a">>}, l \in {NoString, <<"a">>, <<"b">>}}
  /\ parsedPos = 0
  /\ stoppedAt = NoStop
  /\ region = RegionNew(doc, NoEdit)
  /\ compiler = CompilerNew
  /\ pc = "rule"
  /\ tree = NoTree
  /\ parseNo = 1
  /\ ev = NoEvent
  /\ born = <<>>
  /\ prev = NoPrev
  /\ bufOp = NoOp

\* rule.match(state, doc, pos) of a modelled rule at a position of the
\* document; bufOp records the call: the position in index, the state it was
\* given in before, its result in right and the rule in rule
RuleCall ==
  /\ pc = "rule"
  /\ \E rule \in Rules : \E pos \in 0..Len(doc) :
       \E m \in {RuleDotMatch(rule, state, doc, pos)} :
          /\ state' = m.state
          /\ bufOp' = [name |-> "rule", index |-> pos, offset |-> 0, before |-> state,
                       right |-> m, rule |-> rule]
  /\ pc' = "called"
  /\ UNCHANGED <<doc, heap, buffer, previousRight, parsedPos, stoppedAt, region, compiler,
                 tree, parseNo, ev, born, prev>>

\* One call of Rule.match on each of the states, documents and positions
SpecRule == InitRule /\ [][RuleCall]_vars

\* C34: context setters of a rule not marked immediate are applied only when
\* Rule.match returns a match: they are not applied when the lookbehind
\* fails, when the pattern does not match, when the lookahead fails, or when
\* a capture function resolves to false.
C34_SettersOnlyOnMatch ==
  (bufOp.name = "rule" /\ ~bufOp.rule.immediate /\ ~bufOp.right.ok) =>
     state.context = bufOp.before.context

\* The pattern of a rule with an unconditional setter that is not immediate
\* matched, its capture function resolved to false, and the context variable
\* is not "b"
C34_Witness ==
  /\ bufOp.name = "rule"
  /\ ~bufOp.rule.immediate
  /\ ~bufOp.rule.rematch
  /\ bufOp.rule.setters = <<[if |-> None, matches |-> None, to |-> <<"b">>]>>
  /\ bufOp.rule.behind = None
  /\ bufOp.rule.ahead = None
  /\ CharAt(doc, bufOp.index) = "a"
  /\ bufOp.rule.captures # <<>>
  /\ ~bufOp.right.ok
  /\ state.context = <<"a">>

\* C35: when a rule flagged rematch matches (pattern and lookahead succeed),
\* Rule.match returns a zero-length match at pos and the rule's context
\* setters have been applied to the state by the time the match is returned
\* (with the last match as it was before the call or as the pattern's match).
C35_RematchAppliesSetters ==
  (bufOp.name = "rule" /\ bufOp.rule.rematch /\ bufOp.right.ok) =>
     /\ bufOp.right.length = 0
     /\ state.context \in
          {ApplySetters(bufOp.rule.setters, bufOp.before, 1).context,
           ApplySetters(bufOp.rule.setters,
                        [bufOp.before EXCEPT !.last = <<bufOp.rule.char>>], 1).context}

\* C36: when a capture function resolves to false, or the lookahead fails,
\* for a rule without immediate setters, Rule.match returns null and leaves
\* the GrammarState as it was before the call, its record of the last match
\* (state.last) included.
C36_VetoLeavesState ==
  (/\ bufOp.name = "rule"
   /\ ~bufOp.rule.immediate
   /\ CharAt(doc, bufOp.index) = bufOp.rule.char
   /\ \/ /\ bufOp.rule.ahead # None
         /\ CharAt(doc, bufOp.index + 1) # bufOp.rule.ahead.text[1]
      \/ /\ ~bufOp.rule.rematch
         /\ \E i \in 1..Len(bufOp.rule.captures) :
              /\ bufOp.rule.captures[i].kind = "fn"
              /\ ~bufOp.rule.captures[i].else
              /\ bufOp.rule.captures[i].matches # Lit(<<bufOp.rule.char>>)) =>
     /\ ~bufOp.right.ok
     /\ state = bufOp.before

\* C37: a context setter with a condition commits its set only if the
\* condition holds: with only `if`, only when the substituted `if` string is
\* non-empty; with only `matches`, only when the previous match's whole text
\* equals the string or matches the regex; with both, only when the
\* substituted `if` text equals or matches `matches`.  A setter with no
\* condition always commits.  (Stated on the calls that return a match of a
\* rule not flagged rematch, which apply the rule's setter.)
C37_SetterCondition ==
  (/\ bufOp.name = "rule"
   /\ bufOp.right.ok
   /\ ~bufOp.rule.rematch
   /\ bufOp.rule.setters # <<>>) =>
     LET s == bufOp.rule.setters[1]
         last == IF bufOp.rule.immediate THEN bufOp.before.last ELSE <<bufOp.rule.char>>
         ifText == IF s.if.kind = "var" THEN bufOp.before.context ELSE s.if.text
         Holds(against) ==
           /\ against # NoString
           /\ IF s.matches.kind = "re"
              THEN /\ Len(against) >= Len(s.matches.text)
                   /\ SubSeq(against, 1, Len(s.matches.text)) = s.matches.text
              ELSE s.matches.text = against
         committed == state.context = s.to
     IN /\ (s.if.kind # "none" /\ s.matches.kind = "none") =>
             (committed => (ifText # NoString /\ ifText # <<>>))
        /\ (s.if.kind = "none" /\ s.matches.kind # "none") => (committed => Holds(last))
        /\ (s.if.kind # "none" /\ s.matches.kind # "none") =>
             (committed => (ifText # NoString /\ Holds(ifText)))
        /\ (s.if.kind = "none" /\ s.matches.kind = "none") => committed

\* ------------------------------------------------------------------------
\* Calls of Chunk.add alone, with tokens of any length
\* ------------------------------------------------------------------------
MaxAdds == 6

\* chunk.add(id, from, to) of a token that starts at the chunk's to and is 1
\* or 2^15 - 1 characters long; bufOp records the number of calls in offset
\* and the tokens given with an id that is not null, as <<id, from, to>>, in
\* before
AddOnce ==
  /\ pc = "add"
  /\ bufOp.offset < MaxAdds
  /\ \E id \in {LeafNode, NullId} : \E len \in {1, Int16 - 1} :
        /\ heap' = <<ChunkAdd(heap[1], id, heap[1].to, heap[1].to + len)>>
        /\ bufOp' = [NoOp EXCEPT !.name = "add", !.offset = bufOp.offset + 1,
                                 !.before = IF id = NullId THEN bufOp.before
                                            ELSE Append(bufOp.before,
                                                        <<id, heap[1].to, heap[1].to + len>>)]
  /\ UNCHANGED <<pc, compiler>>
  /\ UNCHANGED UnitVars

\* Tokens added to a new chunk at position 0 or 5
SpecAdd ==
  /\ \E pos \in {0, 5} : InitUnit("add", <<ChunkNew(pos, StartState)>>)
  /\ [][AddOnce]_vars

\* C38: Chunk.add keeps every token it was given: for any number of added
\* tokens and any chunk length, the id and the chunk-relative from / to stored
\* in the token array read back, as chunk.from plus the stored value, to the
\* token's original id and absolute positions.
C38_TokensReadBack ==
  bufOp.name = "add" =>
     /\ Len(heap[1].tokens) = Len(bufOp.before)
     /\ \A i \in 1..Len(bufOp.before) :
          /\ heap[1].tokens[i][1] = bufOp.before[i][1]
          /\ heap[1].from + heap[1].tokens[i][2] = bufOp.before[i][2]
          /\ heap[1].from + heap[1].tokens[i][3] = bufOp.before[i][3]

\* C39: for any number of simultaneously open frames, CompileStack.push
\* followed later by pop returns the id, start and child count that were
\* pushed: when compile() pops the frames left open, the parent record of
\* each carries the id and the start its push was given, and the 16-bit
\* count of the records emitted since, also with more than
\* COMPILER_STACK_SIZE frames open at once.
C39_PopReturnsPushed ==
  [][bufOp'.name = "finish" =>
       \A j \in 1..Len(compiler.stack) :
          LET pushed == bufOp.before[Len(compiler.stack) + 1 - j]
              record == compiler'.compiled[Len(compiler.compiled) + 2 * j]
          IN /\ record[1] = pushed[1]
             /\ record[2] = pushed[2]
             /\ record[4] = 4 * ((compiler.size + 2 * j - 1 - pushed[3]) % Uint16) + 4]_vars

====
